---- MODULE Spec2Model ----
(***************************************************************************)
(* JSPlaskin: the data layer (js/data.js) and the application logic        *)
(* (js/app.js) as a state machine.                                         *)
(*                                                                         *)
(* JavaScript values are modelled as follows.                              *)
(*   number      <<"num", n>> with n an integer, or NaN == <<"NaN", 0>>    *)
(*   undefined   Undefined == <<"undefined", 0>>                           *)
(*   string      a sequence of one-character strings                       *)
(*   array       a sequence (index i of the code is index i+1 here)        *)
(*   object used as a sparse map (index -> series): a function whose       *)
(*               domain is the set of keys that are present                *)
(***************************************************************************)
EXTENDS Integers, Sequences, FiniteSets, TLC

VARIABLES
  data,          \* app.js `data`: NullData or a dataset record
  loads,         \* the load handlers in flight: where each stands, what it holds
  tables,        \* the rows of the four list tables
  status,        \* the text of the status bar
  overlay,       \* whether the loading overlay is shown
  jszip,         \* whether window.JSZip is set
  sharedXRange,  \* app.js `sharedXRange`
  charts,        \* the chart divs: rendered or purged, with their listeners
  isSyncing,     \* app.js `isSyncing`
  relayouts,     \* the Plotly.relayout promises of registerSync still pending
  srcOut,        \* outcome of the last ModelData.sources call
  frIn,          \* arguments of the filterRates call under study
  frOut,         \* what that call returned
  srcChart       \* what the last updateSourceChart computed

appVars  == <<loads, tables, status, overlay, jszip, sharedXRange, charts>>
callVars == <<srcOut, frIn, frOut>>
chartVars == <<isSyncing, relayouts, srcChart>>
vars == <<data, loads, tables, status, overlay, jszip, sharedXRange, charts,
          isSyncing, relayouts, srcOut, frIn, frOut, srcChart>>

(***************************************************************************)
(* Bounds of the model.                                                    *)
(***************************************************************************)
MaxSpecies   == 2   \* species / matrix rows in a generated dataset
MaxReactions == 2   \* reactions / matrix columns in a generated dataset
MaxT         == 2   \* samples of a generated series
MaxIds       == 3   \* candidate ids handed to filterRates
MaxPeak      == 2   \* largest weighted sample handed to filterRates
MaxRank      == 3   \* largest maxRates / minRates handed to filterRates
MaxLoads     == 2   \* load handlers that may be in flight together
DeltaBits    == 2   \* delta ranges over the multiples of 1 / 2^DeltaBits in [0, 1]
MaxChildren  == 3   \* children of a group of a generated HDF5 file
MaxLines     == 3   \* lines of a generated list file, rows of a generated data file
MaxRows      == 3   \* rows of a table that is clicked on
MaxHandlers  == 2   \* plotly_relayout listeners a chart div may collect

(***************************************************************************)
(* JavaScript numbers.                                                     *)
(***************************************************************************)
Num(n)    == <<"num", n>>
NaN       == <<"NaN", 0>>
Undefined == <<"undefined", 0>>

IsNum(v) == v[1] = "num"
IsNaN(v) == v[1] = "NaN"
IsUndefined(v) == v[1] = "undefined"

\* v * w of JavaScript: NaN as soon as an operand is NaN or undefined
Mul(v, w) == IF IsNum(v) /\ IsNum(w) THEN Num(v[2] * w[2]) ELSE NaN

Max2(a, b) == IF a >= b THEN a ELSE b
Min2(a, b) == IF a <= b THEN a ELSE b

\* v > 0 and v < 0 of JavaScript: false for NaN and undefined
Gt0(v) == IsNum(v) /\ v[2] > 0
Lt0(v) == IsNum(v) /\ v[2] < 0

\* Math.max(v, 0) and Math.max(-v, 0): NaN when v is not a number
MaxZero(v) == IF IsNum(v) THEN Num(Max2(v[2], 0)) ELSE NaN
MaxNegZero(v) == IF IsNum(v) THEN Num(Max2(0 - v[2], 0)) ELSE NaN

\* arr[i] of JavaScript, i 0-based: undefined outside the array
At(arr, i) == IF i + 1 \in DOMAIN arr THEN arr[i + 1] ELSE Undefined

\* new Array(n).fill(0)
Zeros(n) == [i \in 1..n |-> Num(0)]

Range(f) == {f[x] : x \in DOMAIN f}

\* the characters of the decimal digits, and a generated label such as "S2"
DigitChars == <<"0", "1", "2", "3", "4", "5", "6", "7", "8", "9">>
Digit(i) == DigitChars[i + 1]
Label(c, i) == <<c, Digit(i)>>

(***************************************************************************)
(* ModelData (data.js 7-42).  A dataset is a record; `data = null` of      *)
(* app.js is NullData.                                                     *)
(***************************************************************************)
NullData == [isNull |-> TRUE]

\* new ModelData() followed by the subclass constructor
NewModelData ==
  [isNull |-> FALSE,
   species |-> <<>>, reactions |-> <<>>, conditions |-> <<>>,
   t |-> <<>>, sourceMatrix |-> <<>>,
   densities |-> <<>>, rates |-> <<>>, conds |-> <<>>]

\* d.rate(key): this._rates[key], undefined when the key is absent
HasRate(d, key) == key \in DOMAIN d.rates
HasDensity(d, key) == key \in DOMAIN d.densities
HasCondition(d, key) == key \in DOMAIN d.conds

\* The outcome of a call: threw, or returned `result`
Returned(r) == [threw |-> FALSE, result |-> r]
Threw       == [threw |-> TRUE,  result |-> <<>>]

\* the loop body of sources: the entry of reaction rIdx (0-based) is made
\* when coeff !== 0 and rate(rIdx + 1) is truthy
SourcesHas(d, row, rIdx) ==
  /\ At(row, rIdx) # Num(0)
  /\ HasRate(d, rIdx + 1)

SourcesSeries(d, row, rIdx) ==
  [i \in DOMAIN d.rates[rIdx + 1] |-> Mul(d.rates[rIdx + 1][i], At(row, rIdx))]

\* the guard `if (!sm || !sm[sIdx]) return result;` left out: reading
\* sm[sIdx][rIdx] of an undefined row is a TypeError
SourcesUnguarded(d, speciesIndex) ==
  LET sIdx == speciesIndex - 1
      sm   == d.sourceMatrix
  IN  IF sIdx + 1 \notin DOMAIN sm
        THEN IF Len(d.reactions) > 0 THEN Threw ELSE Returned(<<>>)
        ELSE LET row  == sm[sIdx + 1]
                 keys == {r \in 1..Len(d.reactions) : SourcesHas(d, row, r - 1)}
             IN  Returned([r \in keys |-> SourcesSeries(d, row, r - 1)])

\* ModelData.sources(speciesIndex)
Sources(d, speciesIndex) ==
  LET sIdx == speciesIndex - 1
      sm   == d.sourceMatrix
  IN  IF sIdx + 1 \notin DOMAIN sm      \* !sm[sIdx]: arrays, even empty, are truthy
        THEN Returned(<<>>)
        ELSE LET row  == sm[sIdx + 1]
                 keys == {r \in 1..Len(d.reactions) : SourcesHas(d, row, r - 1)}
             IN  Returned([r \in keys |-> SourcesSeries(d, row, r - 1)])

(***************************************************************************)
(* filterRates (app.js 530-557).  The weighted samples are non-negative    *)
(* integers (app.js 527: "all values >= 0"); delta is the rational         *)
(* deltaNum / DeltaDen, and a normalised peak v / globalMax is compared    *)
(* with it by cross-multiplication (globalMax > 0 where it is used).       *)
(***************************************************************************)

\* the denominator of delta: the values of delta are exact binary fractions,
\* so that delta and 1 - delta are computed without rounding
DeltaDen == 2 ^ DeltaBits

\* Math.max(...arr) of a non-empty array of non-negative integers
RECURSIVE MathMax(_)
MathMax(arr) ==
  IF Len(arr) = 1 THEN arr[1] ELSE Max2(arr[1], MathMax(Tail(arr)))

\* ids.map(id => Math.max(...weightedMap[id]))
MaxVal(weightedMap, ids) == [i \in DOMAIN ids |-> MathMax(weightedMap[ids[i]])]

\* the entries {id, norm} of `sorted`; norm is kept as its numerator, the
\* denominator globalMax being the same for all entries
Entry(id, v) == [id |-> id, norm |-> v]

\* an unstable sort: e goes in front of the entries of equal norm
RECURSIVE InsertDescUnstable(_, _)
InsertDescUnstable(sortedSeq, e) ==
  IF sortedSeq = <<>> THEN <<e>>
  ELSE IF Head(sortedSeq).norm > e.norm
         THEN <<Head(sortedSeq)>> \o InsertDescUnstable(Tail(sortedSeq), e)
         ELSE <<e>> \o sortedSeq

\* Array.prototype.sort with (a, b) => b.norm - a.norm is stable: e goes
\* behind every entry whose norm is at least its own
RECURSIVE InsertDesc(_, _)
InsertDesc(sortedSeq, e) ==
  IF sortedSeq = <<>> THEN <<e>>
  ELSE IF Head(sortedSeq).norm >= e.norm
         THEN <<Head(sortedSeq)>> \o InsertDesc(Tail(sortedSeq), e)
         ELSE <<e>> \o sortedSeq

RECURSIVE SortDesc(_)
SortDesc(entries) ==
  IF entries = <<>> THEN <<>>
  ELSE InsertDesc(SortDesc(SubSeq(entries, 1, Len(entries) - 1)),
                  entries[Len(entries)])

\* norm > delta and norm > 1 - delta, norm == v / globalMax
NormAbove(v, globalMax, deltaNum) == v * DeltaDen > deltaNum * globalMax
NormAboveOneMinus(v, globalMax, deltaNum) ==
  v * DeltaDen > (DeltaDen - deltaNum) * globalMax

\* the rank test with the first branch `i < minRates` dropped
SelectedNoMin(i, v, globalMax, deltaNum, maxRates, minRates) ==
  IF i < maxRates THEN deltaNum = 0 \/ NormAbove(v, globalMax, deltaNum)
  ELSE deltaNum > 0 /\ NormAboveOneMinus(v, globalMax, deltaNum)

\* the rank test with >= in place of > in the middle branch
SelectedGeq(i, v, globalMax, deltaNum, maxRates, minRates) ==
  IF i < minRates THEN TRUE
  ELSE IF i < maxRates
         THEN deltaNum = 0 \/ v * DeltaDen >= deltaNum * globalMax
  ELSE deltaNum > 0 /\ NormAboveOneMinus(v, globalMax, deltaNum)

\* the rank test with the last branch comparing with delta, not 1 - delta
SelectedOverflowDelta(i, v, globalMax, deltaNum, maxRates, minRates) ==
  IF i < minRates THEN TRUE
  ELSE IF i < maxRates THEN deltaNum = 0 \/ NormAbove(v, globalMax, deltaNum)
  ELSE deltaNum > 0 /\ NormAbove(v, globalMax, deltaNum)

\* the body of the selection loop (app.js 547-554): is the entry at rank i
\* (0-based) pushed on result?
Selected(i, v, globalMax, deltaNum, maxRates, minRates) ==
  IF i < minRates THEN TRUE
  ELSE IF i < maxRates THEN deltaNum = 0 \/ NormAbove(v, globalMax, deltaNum)
  ELSE deltaNum > 0 /\ NormAboveOneMinus(v, globalMax, deltaNum)

\* the subsequence of s at the positions in keep, in the order of s
RECURSIVE Pick(_, _, _)
Pick(s, keep, i) ==
  IF i > Len(s) THEN <<>>
  ELSE (IF i \in keep THEN <<s[i]>> ELSE <<>>) \o Pick(s, keep, i + 1)

\* `sorted` of filterRates (app.js 541-542)
SortedEntries(weightedMap, ids) ==
  LET maxVal == MaxVal(weightedMap, ids)
  IN  SortDesc([i \in DOMAIN ids |-> Entry(ids[i], maxVal[i])])

\* filterRates without the `if (globalMax === 0) return [];` test: with
\* globalMax zero every norm is 0 / 0, NaN, and no comparison with it is true
FilterRatesNoZeroTest(weightedMap, ids, deltaNum, maxRates, minRates) ==
  IF Len(ids) = 0 THEN <<>>
  ELSE
    LET maxVal    == MaxVal(weightedMap, ids)
        globalMax == MathMax(maxVal)
        sorted    == SortedEntries(weightedMap, ids)
        keep      == {i \in DOMAIN sorted :
                        IF globalMax = 0
                          THEN i - 1 < minRates \/ (i - 1 < maxRates /\ deltaNum = 0)
                          ELSE Selected(i - 1, sorted[i].norm, globalMax,
                                        deltaNum, maxRates, minRates)}
        picked    == Pick(sorted, keep, 1)
    IN  [i \in DOMAIN picked |-> picked[i].id]

\* filterRates(weightedMap, ids, delta, maxRates, minRates)
FilterRates(weightedMap, ids, deltaNum, maxRates, minRates) ==
  IF Len(ids) = 0 THEN <<>>
  ELSE
    LET maxVal    == MaxVal(weightedMap, ids)
        globalMax == MathMax(maxVal)
    IN  IF globalMax = 0 THEN <<>>
        ELSE
          LET sorted == SortedEntries(weightedMap, ids)
              keep   == {i \in DOMAIN sorted :
                           Selected(i - 1, sorted[i].norm, globalMax,
                                    deltaNum, maxRates, minRates)}
              picked == Pick(sorted, keep, 1)
          IN  [i \in DOMAIN picked |-> picked[i].id]

(***************************************************************************)
(* Text.  A string is a sequence of one-character strings; a file's text   *)
(* is the sequence of its lines, text.split('\n'), so that the empty text  *)
(* is <<<<>>>> (one empty line).                                           *)
(***************************************************************************)
WS == {" ", "\t"}
IsWS(c) == c \in WS
IsDigit(c) == c \in Range(DigitChars)
DigitVal(c) == CHOOSE i \in 0..9 : DigitChars[i + 1] = c

EmptyText == << <<>> >>
\* `!text` of JavaScript: only the empty string is falsy
IsEmptyText(text) == text = EmptyText

RECURSIVE TrimStart(_)
TrimStart(str) ==
  IF str # <<>> /\ IsWS(Head(str)) THEN TrimStart(Tail(str)) ELSE str

RECURSIVE TrimEnd(_)
TrimEnd(str) ==
  IF str # <<>> /\ IsWS(str[Len(str)])
    THEN TrimEnd(SubSeq(str, 1, Len(str) - 1)) ELSE str

\* String.prototype.trim of one line
Trim(str) == TrimEnd(TrimStart(str))

IsBlank(str) == Trim(str) = <<>>

\* text.trim().split('\n'): the line breaks and blanks in front of the first
\* non-blank character and behind the last one are whitespace too
RECURSIVE DropBlankHead(_)
DropBlankHead(lines) ==
  IF lines # <<>> /\ IsBlank(Head(lines)) THEN DropBlankHead(Tail(lines)) ELSE lines

RECURSIVE DropBlankTail(_)
DropBlankTail(lines) ==
  IF lines # <<>> /\ IsBlank(lines[Len(lines)])
    THEN DropBlankTail(SubSeq(lines, 1, Len(lines) - 1)) ELSE lines

TrimEnds(core) ==
  IF core = <<>> THEN EmptyText
  ELSE [i \in DOMAIN core |->
          IF i = 1 /\ i = Len(core) THEN Trim(core[i])
          ELSE IF i = 1 THEN TrimStart(core[i])
          ELSE IF i = Len(core) THEN TrimEnd(core[i])
          ELSE core[i]]

TrimTextLines(text) == TrimEnds(DropBlankTail(DropBlankHead(text)))

\* arr.filter(pred) with the kept positions given
FilterSeq(arr, keep) == Pick(arr, keep, 1)

\* line.split(/\s+/) of a trimmed, non-empty line
RECURSIVE SplitWS(_)
SplitWS(str) ==
  IF str = <<>> THEN <<>>
  ELSE LET n == CHOOSE k \in 1..(Len(str) + 1) :
                  /\ \A i \in 1..(k - 1) : ~IsWS(str[i])
                  /\ (k = Len(str) + 1 \/ IsWS(str[k]))
       IN  <<SubSeq(str, 1, n - 1)>> \o
             SplitWS(TrimStart(SubSeq(str, n, Len(str))))

RECURSIVE DecimalValue(_)
DecimalValue(digits) ==
  IF digits = <<>> THEN 0
  ELSE 10 * DecimalValue(SubSeq(digits, 1, Len(digits) - 1))
         + DigitVal(digits[Len(digits)])

AllDigits(str) == str # <<>> /\ \A i \in DOMAIN str : IsDigit(str[i])

\* Number(token) for tokens over digits, "-" and letters: a decimal
\* integer with an optional sign, anything else is NaN
NumberOf(tok) ==
  IF tok = <<>> THEN Num(0)
  ELSE IF AllDigits(tok) THEN Num(DecimalValue(tok))
  ELSE IF tok[1] = "-" /\ AllDigits(Tail(tok)) THEN Num(0 - DecimalValue(Tail(tok)))
  ELSE NaN

\* the number of leading digits, and of leading whitespace characters
RECURSIVE DigitPrefixLen(_)
DigitPrefixLen(str) ==
  IF str # <<>> /\ IsDigit(Head(str)) THEN 1 + DigitPrefixLen(Tail(str)) ELSE 0

RECURSIVE WSPrefixLen(_)
WSPrefixLen(str) ==
  IF str # <<>> /\ IsWS(Head(str)) THEN 1 + WSPrefixLen(Tail(str)) ELSE 0

\* a label cut at its first whitespace
ListLabelFirstWord(line) ==
  LET nd   == DigitPrefixLen(line)
      rest == SubSeq(line, nd + 1, Len(line))
      nw   == WSPrefixLen(rest)
  IN  IF nd >= 1 /\ nw >= 1
        THEN SplitWS(Trim(SubSeq(rest, nw + 1, Len(rest))) \o <<" ">>)[1]
        ELSE line

\* line.match(/^\d+\s+(.*)/): m ? m[1].trim() : line
ListLabel(line) ==
  LET nd   == DigitPrefixLen(line)
      rest == SubSeq(line, nd + 1, Len(line))
      nw   == WSPrefixLen(rest)
  IN  IF nd >= 1 /\ nw >= 1 THEN Trim(SubSeq(rest, nw + 1, Len(rest))) ELSE line

\* the labels of the trimmed lines of a list file (data.js 206-211)
ListLabels(trimmed) ==
  LET kept == FilterSeq(trimmed, {i \in DOMAIN trimmed : Len(trimmed[i]) > 0})
  IN  [i \in DOMAIN kept |-> ListLabel(kept[i])]

\* DirectoryData._parseListFile(text)
ParseListFile(text) == ListLabels([i \in DOMAIN text |-> Trim(text[i])])

\* line.trim().split(/\s+/).map(Number)
LineValues(line) ==
  LET tokens == SplitWS(Trim(line))
  IN  [k \in DOMAIN tokens |-> NumberOf(tokens[k])]

\* the rows kept by the first loop of _parseDataFile (data.js 224-231): the
\* values of the lines after the first that are not blank and whose first
\* value is a number
KeptRows(lines) ==
  LET vals == [i \in DOMAIN lines |-> LineValues(lines[i])]
  IN  FilterSeq(vals, {i \in DOMAIN lines :
                         i >= 2 /\ ~IsBlank(lines[i]) /\ ~IsNaN(vals[i][1])})

DataRows(text) == KeptRows(TrimTextLines(text))

\* cols that leave the value a row lacks undefined
ColsOfRowsNoFill(rows) ==
  IF rows = <<>> THEN [t |-> <<>>, cols |-> <<>>]
  ELSE [t |-> [i \in DOMAIN rows |-> rows[i][1]],
        cols |-> [j \in 1..(Len(rows[1]) - 1) |->
                    [i \in DOMAIN rows |->
                       IF j + 1 \in DOMAIN rows[i] THEN rows[i][j + 1] ELSE Undefined]]]

\* {t, cols} of the kept rows (data.js 229-239): nCols is the width of the
\* first row, a value a row lacks is 0
ColsOfRows(rows) ==
  IF rows = <<>> THEN [t |-> <<>>, cols |-> <<>>]
  ELSE [t |-> [i \in DOMAIN rows |-> rows[i][1]],
        cols |-> [j \in 1..(Len(rows[1]) - 1) |->
                    [i \in DOMAIN rows |->
                       IF j + 1 \in DOMAIN rows[i] THEN rows[i][j + 1] ELSE Num(0)]]]

\* DirectoryData._parseDataFile(text): {t, cols}
ParseDataFile(text) == ColsOfRows(DataRows(text))

\* the rows of the non-blank lines of a matrix file
MatrixRows(lines) ==
  LET kept == FilterSeq(lines, {i \in DOMAIN lines : ~IsBlank(lines[i])})
  IN  [i \in DOMAIN kept |-> LineValues(kept[i])]

\* DirectoryData._parseMatrix(text)
ParseMatrix(text) == MatrixRows(TrimTextLines(text))

(***************************************************************************)
(* DirectoryData (data.js 163-321).  A File is [name, text, readable]:     *)
(* its basename, the lines of its text, and whether FileReader can read    *)
(* it.  The outcome of a load is [ok, error, inst], inst being the         *)
(* instance as the load left it.                                           *)
(***************************************************************************)
LoadOk(inst)        == [ok |-> TRUE,  error |-> "", inst |-> inst]
LoadErr(msg, inst)  == [ok |-> FALSE, error |-> msg, inst |-> inst]

\* the filename table `names` of _load (data.js 258-266)
DialectNames(hasQT) ==
  [speciesList    |-> IF hasQT THEN "qt_species_list.txt"    ELSE "species_list.txt",
   reactionsList  |-> IF hasQT THEN "qt_reactions_list.txt"  ELSE "reactions_list.txt",
   conditionsList |-> IF hasQT THEN "qt_conditions_list.txt" ELSE "conditions_list.txt",
   densities      |-> IF hasQT THEN "qt_densities.txt"       ELSE "out_density.txt",
   rates          |-> IF hasQT THEN "qt_rates.txt"           ELSE "out_rate.txt",
   matrix         |-> IF hasQT THEN "qt_matrix.txt"          ELSE "source_matrix.txt",
   conditions     |-> IF hasQT THEN "qt_conditions.txt"      ELSE "out_temperatures.txt"]

FileRoles == {"speciesList", "reactionsList", "conditionsList", "densities",
              "rates", "matrix", "conditions"}

\* _findFile(fileList, name): the index of the first file of that basename,
\* 0 for null
FindFile(files, name) ==
  IF \E i \in DOMAIN files : files[i].name = name
    THEN CHOOSE i \in DOMAIN files :
           /\ files[i].name = name
           /\ \A k \in 1..(i - 1) : files[k].name # name
    ELSE 0

\* readOrNull(key), once the read has settled: null, a text, or a rejection
ReadFile(files, i) ==
  IF i = 0 THEN [isNull |-> TRUE, failed |-> FALSE, text |-> EmptyText]
  ELSE IF ~files[i].readable
         THEN [isNull |-> FALSE, failed |-> TRUE, text |-> EmptyText]
  ELSE [isNull |-> FALSE, failed |-> FALSE, text |-> files[i].text]

ReadOrNull(files, name) == ReadFile(files, FindFile(files, name))

\* `text ? ... : ...` of JavaScript on a readOrNull result: null and the
\* empty string are falsy
Truthy(rd) == ~rd.isNull /\ ~IsEmptyText(rd.text)

\* the series map filled by the loops of data.js 296-311: column j of the
\* data file, or zeros of the length of t when the file has no such column
SeriesMap(n, cols, tLen) ==
  [j \in 1..n |-> IF j \in DOMAIN cols THEN cols[j] ELSE Zeros(tLen)]

\* a loader that leaves the matrix empty when there is no matrix text
TextSourceMatrixNoDefault(matrixRd, nSpecies, nReactions) ==
  IF Truthy(matrixRd) THEN ParseMatrix(matrixRd.text) ELSE <<>>

\* the value given to sourceMatrix (data.js 314-315)
TextSourceMatrix(matrixRd, nSpecies, nReactions) ==
  IF Truthy(matrixRd) THEN ParseMatrix(matrixRd.text)
  ELSE [i \in 1..nSpecies |-> Zeros(nReactions)]

\* the lists and series of _load (data.js 289-315), from the texts read
\* and the parsed densities file
DirectoryInst(rd, species, reactions, conditions, densData) ==
  [NewModelData EXCEPT
     !.species      = species,
     !.reactions    = reactions,
     !.conditions   = conditions,
     !.t            = densData.t,
     !.densities    = SeriesMap(Len(species), densData.cols, Len(densData.t)),
     !.rates        = IF Truthy(rd["rates"])
                        THEN SeriesMap(Len(reactions),
                               ParseDataFile(rd["rates"].text).cols, Len(densData.t))
                        ELSE <<>>,
     !.conds        = IF Truthy(rd["conditions"])
                        THEN SeriesMap(Len(conditions),
                               ParseDataFile(rd["conditions"].text).cols,
                               Len(densData.t))
                        ELSE <<>>,
     !.sourceMatrix = TextSourceMatrix(rd["matrix"], Len(species), Len(reactions))]

\* _load once the seven reads have settled (data.js 286-315)
DirectoryParse(rd) ==
  IF \E role \in FileRoles : rd[role].failed
    THEN LoadErr("Failed to read", NewModelData)
  ELSE IF ~Truthy(rd["speciesList"])
    THEN LoadErr("Species list file not found", NewModelData)
  ELSE IF ~Truthy(rd["densities"])
    THEN LoadErr("Densities file not found", NewModelData)
  ELSE LoadOk(DirectoryInst(rd,
         ParseListFile(rd["speciesList"].text),
         IF Truthy(rd["reactionsList"])
           THEN ParseListFile(rd["reactionsList"].text) ELSE <<>>,
         IF Truthy(rd["conditionsList"])
           THEN ParseListFile(rd["conditionsList"].text) ELSE <<>>,
         ParseDataFile(rd["densities"].text)))

\* the texts of the seven roles, read from the files of the dialect
ReadAll(files, names) == [role \in FileRoles |-> ReadOrNull(files, names[role])]

\* a loader that takes a file from the other dialect when the dialect
\* of the sentinel lacks it
DirectoryLoadEitherName(files) ==
  DirectoryParse(
    [role \in FileRoles |->
       LET q == \E i \in DOMAIN files : files[i].name = "qt_species_list.txt"
       IN  IF FindFile(files, DialectNames(q)[role]) # 0
             THEN ReadOrNull(files, DialectNames(q)[role])
             ELSE ReadOrNull(files, DialectNames(~q)[role])])

\* DirectoryData.fromFiles(fileList): new DirectoryData() and _load
DirectoryLoad(files) ==
  DirectoryParse(
    ReadAll(files,
      DialectNames(\E i \in DOMAIN files : files[i].name = "qt_species_list.txt")))

(***************************************************************************)
(* HDF5Data (data.js 46-159).  An HDF5 file is                             *)
(*   [valid, main, zdplaskin], valid: new hdf5.File opens it;              *)
(*   a root is [hasT, t, sm, density, rate, condition];                    *)
(*   sm is [present, shape, value] (value: the flattened dataset);         *)
(*   a group is [present, children], children in the order of keys();      *)
(*   a child is [key, hasName, name, value].                               *)
(* f.get(path) throws for a path that does not exist.                      *)
(***************************************************************************)
\* parseInt(key) of a key made of digits
ParseInt(key) == DecimalValue(SubSeq(key, 1, DigitPrefixLen(key)))

\* a sort that leaves the keys in the order of keys()
InsertByKeyUnsorted(sortedSeq, c) == sortedSeq \o <<c>>

\* rawKeys.sort((a, b) => parseInt(a) - parseInt(b)), a stable sort, applied
\* to the children
RECURSIVE InsertByKey(_, _)
InsertByKey(sortedSeq, c) ==
  IF sortedSeq = <<>> THEN <<c>>
  ELSE IF ParseInt(Head(sortedSeq).key) <= ParseInt(c.key)
         THEN <<Head(sortedSeq)>> \o InsertByKey(Tail(sortedSeq), c)
         ELSE <<c>> \o sortedSeq

RECURSIVE SortByKey(_)
SortByKey(children) ==
  IF children = <<>> THEN <<>>
  ELSE InsertByKey(SortByKey(SubSeq(children, 1, Len(children) - 1)),
                   children[Len(children)])

\* a readGroup that leaves out the children without a name attribute
ReadGroupNamedOnly(group) ==
  LET keys  == SortByKey(group.children)
      named == FilterSeq(keys, {i \in DOMAIN keys : keys[i].hasName})
  IN  [names   |-> [i \in DOMAIN named |-> named[i].name],
       dataMap |-> [i \in DOMAIN named |-> named[i].value]]

\* readGroup(groupPath) of a group that exists: {names, dataMap}
ReadGroup(group) ==
  LET keys == SortByKey(group.children)
  IN  [names   |-> [i \in DOMAIN keys |->
                      IF keys[i].hasName THEN keys[i].name ELSE keys[i].key],
       dataMap |-> [i \in DOMAIN keys |-> keys[i].value]]

\* smVal.slice(from, to) of a typed array, 0-based, clamped to the array
Slice(arr, from, to) ==
  LET lo == IF from < Len(arr) THEN from ELSE Len(arr)
      hi == IF to < Len(arr) THEN to ELSE Len(arr)
  IN  IF lo >= hi THEN <<>> ELSE SubSeq(arr, lo + 1, hi)

\* the source matrix read by data.js 107-117: [nSpec, nRxn] = smDs.shape;
\* with a shape of one dimension nRxn is undefined and every slice is
\* slice(NaN, NaN), empty; with none nSpec is undefined and the loop is not
\* entered; a missing dataset throws and gives []
H5SourceMatrix(sm) ==
  IF ~sm.present \/ Len(sm.shape) = 0 THEN <<>>
  ELSE IF Len(sm.shape) = 1 THEN [i \in 1..sm.shape[1] |-> <<>>]
  ELSE [i \in 1..sm.shape[1] |->
          Slice(sm.value, (i - 1) * sm.shape[2], i * sm.shape[2])]

\* the instance with the names and series of a group
WithDensity(inst, g)   == [inst EXCEPT !.species = g.names, !.densities = g.dataMap]
WithRate(inst, g)      == [inst EXCEPT !.reactions = g.names, !.rates = g.dataMap]
WithCondition(inst, g) == [inst EXCEPT !.conditions = g.names, !.conds = g.dataMap]

\* _parseH5 from the condition group on (data.js 146-153)
ParseH5Condition(root, inst) ==
  IF ~root.condition.present THEN LoadOk(inst)
  ELSE LoadOk(WithCondition(inst, ReadGroup(root.condition)))

\* _parseH5 from the rate group on (data.js 142-153)
ParseH5Rate(root, inst) ==
  IF ~root.rate.present THEN LoadErr("rate group not found", inst)
  ELSE ParseH5Condition(root, WithRate(inst, ReadGroup(root.rate)))

\* _parseH5 from the density group on (data.js 138-153)
ParseH5Density(root, inst) ==
  IF ~root.density.present THEN LoadErr("density group not found", inst)
  ELSE ParseH5Rate(root, WithDensity(inst, ReadGroup(root.density)))

\* _parseH5 under the root found (data.js 103-153)
ParseH5Root(root) ==
  ParseH5Density(root, [NewModelData EXCEPT !.t = root.t,
                                            !.sourceMatrix = H5SourceMatrix(root.sm)])

\* a loader that probes zdplaskin/t before main/t
ParseH5LegacyFirst(f) ==
  IF ~f.main.hasT /\ ~f.zdplaskin.hasT
    THEN LoadErr("Unrecognised HDF5 structure (expected main/ or zdplaskin/ group)",
                 NewModelData)
  ELSE ParseH5Root(IF f.zdplaskin.hasT THEN f.zdplaskin ELSE f.main)

\* HDF5Data._parseH5(f) on a fresh instance
ParseH5(f) ==
  IF ~f.main.hasT /\ ~f.zdplaskin.hasT
    THEN LoadErr("Unrecognised HDF5 structure (expected main/ or zdplaskin/ group)",
                 NewModelData)
  ELSE ParseH5Root(IF f.main.hasT THEN f.main ELSE f.zdplaskin)

\* HDF5Data._load from `new hdf5.File(fname, 'r')` on (data.js 79-86)
H5OpenAndParse(f) ==
  IF ~f.valid THEN LoadErr("not an HDF5 file", NewModelData) ELSE ParseH5(f)

(***************************************************************************)
(* The application state (app.js 34-39) and the load handlers (app.js      *)
(* 162-268).  The input of a load is [kind, h5, files, zipOk, entries]:    *)
(* kind "h5" with the HDF5 file h5, kind "dir" with the FileList files,    *)
(* kind "zip" with the archive (zipOk: JSZip can open it) and its entries  *)
(* [dir, name, text], name being the basename of the entry.                *)
(***************************************************************************)
chartIds == {"cond-chart", "dens-chart", "react-chart", "creation-chart",
             "removal-chart"}
tableIds == {"cond-table", "spec-table", "react-table", "src-table"}

NullRange == <<>>
\* a chart div is [rendered, xrange, syncRegistered, handlers, rendering]:
\* it has a _fullLayout, the x range it shows (NullRange: autorange), its
\* _syncRegistered flag, the number of its plotly_relayout listeners, and
\* whether a renderChart call awaits Plotly.react on it
PurgedChart == [rendered |-> FALSE, xrange |-> NullRange, syncRegistered |-> FALSE,
                handlers |-> 0, rendering |-> FALSE]
\* Plotly.purge(el): the plot and its listeners are removed
Purged(chart) == [chart EXCEPT !.rendered = FALSE, !.xrange = NullRange, !.handlers = 0]
NoRelayouts == [id \in chartIds |-> <<>>]
NoSrcChart ==
  [called |-> FALSE, s |-> 0, delta |-> 0, sourcesDict |-> <<>>,
   creationIds |-> <<>>, removalIds |-> <<>>,
   posWeighted |-> <<>>, negWeighted |-> <<>>,
   creationCall |-> [weightedMap |-> <<>>, ids |-> <<>>, delta |-> 0],
   removalCall |-> [weightedMap |-> <<>>, ids |-> <<>>, delta |-> 0]]
EmptyTable == [rows |-> <<>>, selected |-> {}, last |-> 0]

NoStatus == [kind |-> "none", msg |-> "", counts |-> <<0, 0, 0>>]

NoGroup == [present |-> FALSE, children |-> <<>>]
NoSm    == [present |-> FALSE, shape |-> <<>>, value |-> <<>>]
NoRoot  == [hasT |-> FALSE, t |-> <<>>, sm |-> NoSm,
            density |-> NoGroup, rate |-> NoGroup, condition |-> NoGroup]
NoH5    == [valid |-> FALSE, main |-> NoRoot, zdplaskin |-> NoRoot]

H5Input(f)       == [kind |-> "h5", h5 |-> f, files |-> <<>>,
                     zipOk |-> FALSE, entries |-> <<>>]
DirInput(files)  == [kind |-> "dir", h5 |-> NoH5, files |-> files,
                     zipOk |-> FALSE, entries |-> <<>>]
ZipInput(ok, es) == [kind |-> "zip", h5 |-> NoH5, files |-> <<>>,
                     zipOk |-> ok, entries |-> es]
NoInput          == [kind |-> "none", h5 |-> NoH5, files |-> <<>>,
                     zipOk |-> FALSE, entries |-> <<>>]

IdleLoad == [pc |-> "idle", input |-> NoInput, files |-> <<>>,
             out |-> LoadOk(NewModelData)]

LoadIds == 1..MaxLoads

AppIdle ==
  /\ loads = [l \in LoadIds |-> IdleLoad]
  /\ tables = [id \in tableIds |-> EmptyTable]
  /\ status = NoStatus
  /\ overlay = FALSE
  /\ jszip = FALSE
  /\ sharedXRange = NullRange
  /\ charts = [id \in chartIds |-> PurgedChart]
  /\ isSyncing = FALSE
  /\ relayouts = NoRelayouts

\* populateTable(tableId, items, singleSelect): the rows are replaced, none
\* is selected
PopulatedTable(items) == [rows |-> items, selected |-> {}, last |-> 0]

\* the tables after populateAll() on dataset d (app.js 164-167)
PopulatedTables(d) ==
  [id \in tableIds |->
     CASE id = "cond-table"  -> PopulatedTable(d.conditions)
       [] id = "spec-table"  -> PopulatedTable(d.species)
       [] id = "react-table" -> PopulatedTable(d.reactions)
       [] OTHER              -> PopulatedTable(d.species)]

\* the three tables of populateAll that are multi-select, and the one that
\* is single-select (app.js 164-167)
SingleSelect(id) == id = "src-table"

\* the modifier keys of a click event
ClickEvents == [ctrlKey : BOOLEAN, metaKey : BOOLEAN, shiftKey : BOOLEAN]

\* rows.slice(lo, hi + 1) for the rows a and b
RowsBetween(a, b) == {k \in Int : Min2(a, b) <= k /\ k <= Max2(a, b)}

\* a handler whose Shift+click replaces the selection by the range
ClickedTableShiftReplaces(tbl, singleSelect, row, ev) ==
  [tbl EXCEPT
     !.selected =
        IF singleSelect THEN {row}
        ELSE IF ev.ctrlKey \/ ev.metaKey
          THEN IF row \in @ THEN @ \ {row} ELSE @ \cup {row}
        ELSE IF ev.shiftKey /\ tbl.last # 0
          THEN {k \in DOMAIN tbl.rows : k \in RowsBetween(tbl.last, row)}
        ELSE {row},
     !.last = row]

\* the click handler of populateTable on the row `row` (app.js 127-150):
\* the selected rows and lastSelectedRow after the click
ClickedTable(tbl, singleSelect, row, ev) ==
  [tbl EXCEPT
     !.selected =
        IF singleSelect THEN {row}
        ELSE IF ev.ctrlKey \/ ev.metaKey
          THEN IF row \in @ THEN @ \ {row} ELSE @ \cup {row}
        ELSE IF ev.shiftKey /\ tbl.last # 0
          THEN @ \cup {k \in DOMAIN tbl.rows : k \in RowsBetween(tbl.last, row)}
        ELSE {row},
     !.last = row]

\* setStatus('Loaded ... | n species | n reactions | n timesteps')
LoadedStatus(d) ==
  [kind |-> "loaded", msg |-> "",
   counts |-> <<Len(d.species), Len(d.reactions), Len(d.t)>>]
ErrorStatus(msg) == [kind |-> "error", msg |-> msg, counts |-> <<0, 0, 0>>]

\* /\.txt$/i on the name of a zip entry
TxtNames ==
  {DialectNames(q)[role] : q \in BOOLEAN, role \in FileRoles} \cup {"notes.txt"}
IsTxt(name) == name \in TxtNames

\* the entries kept by zip.forEach (app.js 220-222), then made Files
\* (app.js 227-231)
ZipTxtEntries(entries) ==
  FilterSeq(entries, {i \in DOMAIN entries : ~entries[i].dir /\ IsTxt(entries[i].name)})
ZipFiles(entries) ==
  LET es == ZipTxtEntries(entries)
  IN  [i \in DOMAIN es |-> [name |-> es[i].name, text |-> es[i].text, readable |-> TRUE]]

\* `data` after the catch block of a load handler, were the handler to
\* build the new dataset in place (data = new ...Data(); await data._load())
DataOnFailureInPlace(l) == loads[l].out.inst

\* `data` after the catch block of a load handler (app.js 192-196, 241-245,
\* 261-265): the failed load has assigned nothing
DataOnFailure(l) == data

\* loadH5File(file), loadZipFile(file), loadDirectory(fileList) up to the
\* first await
StartLoad(l, inp) ==
  /\ loads[l].pc = "idle"
  /\ overlay' = TRUE
  /\ loads' = [loads EXCEPT ![l] =
                 [pc |-> CASE inp.kind = "h5"  -> "import"
                           [] inp.kind = "zip" -> "jszip"
                           [] OTHER            -> "reading",
                  input |-> inp,
                  files |-> inp.files,
                  out |-> LoadOk(NewModelData)]]
  /\ UNCHANGED <<data, tables, status, jszip, sharedXRange, charts>>
  /\ UNCHANGED callVars
  /\ UNCHANGED chartVars

\* the loader of handler l has settled with outcome out
Settled(l, out) ==
  [loads EXCEPT ![l].pc = IF out.ok THEN "parsed" ELSE "failed", ![l].out = out]

\* HDF5Data._load: the dynamic imports and hdf5.ready settle (data.js 63-73)
H5Import(l, ok) ==
  /\ loads[l].pc = "import"
  /\ loads' = [loads EXCEPT ![l].pc = IF ok THEN "buffer" ELSE "failed",
                            ![l].out = IF ok THEN @
                                       ELSE LoadErr("Failed to load HDF5 library",
                                                    NewModelData)]
  /\ UNCHANGED <<data, tables, status, overlay, jszip, sharedXRange, charts>>
  /\ UNCHANGED callVars
  /\ UNCHANGED chartVars

\* HDF5Data._load: file.arrayBuffer() settles, then the file is opened and
\* parsed (data.js 75-86)
H5Parse(l, ok) ==
  /\ loads[l].pc = "buffer"
  /\ loads' = Settled(l, IF ok THEN H5OpenAndParse(loads[l].input.h5)
                           ELSE LoadErr("Failed to read", NewModelData))
  /\ UNCHANGED <<data, tables, status, overlay, jszip, sharedXRange, charts>>
  /\ UNCHANGED callVars
  /\ UNCHANGED chartVars

\* loadJSZip() settles (app.js 201-210): at once when window.JSZip is set,
\* else when the script has loaded or failed to
ZipLib(l, ok) ==
  /\ loads[l].pc = "jszip"
  /\ jszip => ok
  /\ jszip' = (jszip \/ ok)
  /\ loads' = [loads EXCEPT ![l].pc = IF ok THEN "zipopen" ELSE "failed",
                            ![l].out = IF ok THEN @
                                       ELSE LoadErr("Failed to load JSZip", NewModelData)]
  /\ UNCHANGED <<data, tables, status, overlay, sharedXRange, charts>>
  /\ UNCHANGED callVars
  /\ UNCHANGED chartVars

\* what loadAsync and the collection of the entries throw, "" for nothing
ZipOpenError(inp) ==
  IF ~inp.zipOk THEN "not a zip archive"
  ELSE IF ZipTxtEntries(inp.entries) = <<>>
         THEN "No .txt files found in the ZIP archive."
  ELSE ""

ZipOpened(l, err) ==
  [loads EXCEPT ![l].pc = IF err = "" THEN "extract" ELSE "failed",
                ![l].out = IF err = "" THEN @ ELSE LoadErr(err, NewModelData)]

\* JSZip.loadAsync(file) settles and the .txt entries are collected
\* (app.js 216-224)
ZipOpen(l) ==
  /\ loads[l].pc = "zipopen"
  /\ loads' = ZipOpened(l, ZipOpenError(loads[l].input))
  /\ UNCHANGED <<data, tables, status, overlay, jszip, sharedXRange, charts>>
  /\ UNCHANGED callVars
  /\ UNCHANGED chartVars

\* the entries are extracted and DirectoryData.fromFiles(files) is called
\* (app.js 227-233)
ZipExtract(l, ok) ==
  /\ loads[l].pc = "extract"
  /\ loads' = [loads EXCEPT ![l].pc = IF ok THEN "reading" ELSE "failed",
                            ![l].files = IF ok THEN ZipFiles(loads[l].input.entries)
                                         ELSE @,
                            ![l].out = IF ok THEN @
                                       ELSE LoadErr("Failed to extract", NewModelData)]
  /\ UNCHANGED <<data, tables, status, overlay, jszip, sharedXRange, charts>>
  /\ UNCHANGED callVars
  /\ UNCHANGED chartVars

\* DirectoryData._load: the reads of Promise.all settle and the texts are
\* parsed (data.js 274-315)
DirRead(l) ==
  /\ loads[l].pc = "reading"
  /\ loads' = Settled(l, DirectoryLoad(loads[l].files))
  /\ UNCHANGED <<data, tables, status, overlay, jszip, sharedXRange, charts>>
  /\ UNCHANGED callVars
  /\ UNCHANGED chartVars

\* a handler that assigns `data` and sets the status without populateAll()
LoadCommitNoPopulate(l) ==
  /\ loads[l].pc = "parsed"
  /\ data' = loads[l].out.inst
  /\ status' = LoadedStatus(loads[l].out.inst)
  /\ overlay' = FALSE
  /\ loads' = [loads EXCEPT ![l] = IdleLoad]
  /\ UNCHANGED <<tables, jszip, sharedXRange, charts>>
  /\ UNCHANGED callVars
  /\ UNCHANGED chartVars

\* the loader has returned: `data = await ...`, populateAll(), setStatus,
\* hideLoading (app.js 184-191, 197; 162-175)
LoadCommit(l) ==
  /\ loads[l].pc = "parsed"
  /\ data' = loads[l].out.inst
  /\ tables' = PopulatedTables(loads[l].out.inst)
  /\ sharedXRange' = NullRange
  /\ charts' = [id \in chartIds |-> Purged(charts[id])]
  /\ status' = LoadedStatus(loads[l].out.inst)
  /\ overlay' = FALSE
  /\ loads' = [loads EXCEPT ![l] = IdleLoad]
  /\ UNCHANGED jszip
  /\ UNCHANGED callVars
  /\ UNCHANGED chartVars

\* the loader has thrown: the catch and finally blocks (app.js 192-198)
LoadCatch(l) ==
  /\ loads[l].pc = "failed"
  /\ data' = DataOnFailure(l)
  /\ status' = ErrorStatus(loads[l].out.error)
  /\ overlay' = FALSE
  /\ loads' = [loads EXCEPT ![l] = IdleLoad]
  /\ UNCHANGED <<tables, jszip, sharedXRange, charts>>
  /\ UNCHANGED callVars
  /\ UNCHANGED chartVars

\* a click on row `row` of table id (app.js 127-150); a click outside the
\* rows returns at once
Click(id, row, ev) ==
  /\ row \in DOMAIN tables[id].rows
  /\ tables' = [tables EXCEPT ![id] = ClickedTable(@, SingleSelect(id), row, ev)]
  /\ UNCHANGED <<data, loads, status, overlay, jszip, sharedXRange, charts>>
  /\ UNCHANGED callVars
  /\ UNCHANGED chartVars

(***************************************************************************)
(* The charts (app.js 367-509).  A relayout event is [kind, range]: kind   *)
(* "range" for the keys xaxis.range[0] and xaxis.range[1] of a zoom or a   *)
(* pan, "autorange" for xaxis.autorange, "rangeEcho" for the key           *)
(* xaxis.range of a programmatic relayout, "other" for an event without    *)
(* any of these keys.  A Plotly.relayout promise takes effect when it is   *)
(* fulfilled; the event it emits and the callbacks of the promises that    *)
(* hang on it run in the same turn of the event loop.                      *)
(***************************************************************************)
InfoStatus(msg) == [kind |-> "info", msg |-> msg, counts |-> <<0, 0, 0>>]

XRanges == {<<0, 1>>, <<1, 2>>}
RangeEvent(r)  == [kind |-> "range", range |-> r]
AutorangeEvent == [kind |-> "autorange", range |-> NullRange]
OtherEvent     == [kind |-> "other", range |-> NullRange]
RangeEcho(r)   == [kind |-> "rangeEcho", range |-> r]
UserEvents == {RangeEvent(r) : r \in XRanges} \cup {AutorangeEvent, OtherEvent}

\* the event a fulfilled Plotly.relayout(other, ...) of registerSync emits
\* (app.js 390-392)
EchoOf(r) == IF r = NullRange THEN AutorangeEvent ELSE RangeEcho(r)

\* the charts a propagation from divId relayouts (app.js 385-389)
OtherRendered(divId) == {id \in chartIds : id # divId /\ charts[id].rendered}

\* a listener that propagates whether or not isSyncing is set
HeardUnguarded(divId, ev) ==
  /\ charts[divId].handlers > 0
  /\ ev.kind \in {"range", "autorange"}

\* an event on divId gets past the tests of a plotly_relayout listener
\* (app.js 373-381): there is a listener, isSyncing is false, and the event
\* has xaxis.range[0] or xaxis.autorange
Heard(divId, ev) ==
  /\ charts[divId].handlers > 0
  /\ ~isSyncing
  /\ ev.kind \in {"range", "autorange"}

\* the pending relayouts once the listener of divId has called
\* Plotly.relayout on the other rendered charts (app.js 384-394)
Propagated(pending, divId, newRange) ==
  [id \in chartIds |->
     IF id \in OtherRendered(divId) THEN Append(pending[id], newRange)
     ELSE pending[id]]

\* the listeners of divId run on event ev, `pending` being the relayouts
\* that are pending after the event (app.js 372-396); isSyncing is false
\* again once Promise.all has nothing left to wait for
Emit(divId, ev, pending) ==
  IF Heard(divId, ev)
    THEN /\ sharedXRange' = ev.range
         /\ relayouts' = Propagated(pending, divId, ev.range)
         /\ isSyncing' = (\E id \in chartIds :
                            Propagated(pending, divId, ev.range)[id] # <<>>)
    ELSE /\ sharedXRange' = sharedXRange
         /\ relayouts' = pending
         /\ isSyncing' = (isSyncing /\ \E id \in chartIds : pending[id] # <<>>)

\* the user zooms, pans, resets or otherwise relayouts the rendered chart
\* divId: the chart takes the range, then its listeners run
UserRelayout(divId, ev) ==
  /\ charts[divId].rendered
  /\ charts' = [charts EXCEPT ![divId].xrange =
                  IF ev.kind = "other" THEN @ ELSE ev.range]
  /\ Emit(divId, ev, relayouts)
  /\ UNCHANGED <<data, loads, tables, status, overlay, jszip>>
  /\ UNCHANGED callVars
  /\ UNCHANGED srcChart

\* a Plotly.relayout promise of registerSync on chart id settles: fulfilled,
\* the chart shows the range and emits its event; rejected, the rejection is
\* swallowed (app.js 390-395)
RelayoutSettle(id, ok) ==
  /\ relayouts[id] # <<>>
  /\ charts' = [charts EXCEPT ![id].xrange =
                  IF ok /\ charts[id].rendered THEN Head(relayouts[id]) ELSE @]
  /\ Emit(id, IF ok THEN EchoOf(Head(relayouts[id])) ELSE OtherEvent,
          [relayouts EXCEPT ![id] = Tail(@)])
  /\ UNCHANGED <<data, loads, tables, status, overlay, jszip>>
  /\ UNCHANGED callVars
  /\ UNCHANGED srcChart

\* renderChart(divId, traces, layout) up to its await (app.js 399-402); the
\* layout holds sharedXRange as it is at the call (app.js 301, 328)
RenderReact(chart, range) ==
  [chart EXCEPT !.rendered = TRUE, !.xrange = range,
                !.syncRegistered = FALSE, !.rendering = TRUE]

\* one renderChart at a time on a div, and a bounded number of listeners
RenderAllowed(id) == ~charts[id].rendering /\ charts[id].handlers < MaxHandlers

\* Plotly.react has settled: registerSync(divId) (app.js 367-371, 403)
RenderDone(id) ==
  /\ charts[id].rendering
  /\ charts' = [charts EXCEPT
                  ![id].rendering = FALSE,
                  ![id].syncRegistered = TRUE,
                  ![id].handlers = IF charts[id].syncRegistered THEN @ ELSE @ + 1]
  /\ UNCHANGED <<data, loads, tables, status, overlay, jszip, sharedXRange>>
  /\ UNCHANGED callVars
  /\ UNCHANGED chartVars

\* the table whose selection a chart plots
TableOf(id) ==
  CASE id = "cond-chart"  -> "cond-table"
    [] id = "dens-chart"  -> "spec-table"
    [] id = "react-chart" -> "react-table"
    [] OTHER              -> "src-table"

\* updateCondChart, updateDensChart, updateReactChart (app.js 410-457)
UpdateChart(id) ==
  /\ id \in {"cond-chart", "dens-chart", "react-chart"}
  /\ IF data.isNull
       THEN status' = InfoStatus("No data loaded.") /\ UNCHANGED charts
     ELSE IF tables[TableOf(id)].selected = {}
       THEN status' = InfoStatus("Select at least one item.") /\ UNCHANGED charts
     ELSE /\ RenderAllowed(id)
          /\ charts' = [charts EXCEPT ![id] = RenderReact(@, sharedXRange)]
          /\ UNCHANGED status
  /\ UNCHANGED <<data, loads, tables, overlay, jszip, sharedXRange>>
  /\ UNCHANGED callVars
  /\ UNCHANGED chartVars

\* Object.keys(obj).map(Number) of an object with integer keys: ascending
KeysOf(obj) ==
  [i \in 1..Cardinality(DOMAIN obj) |->
     CHOOSE k \in DOMAIN obj : Cardinality({j \in DOMAIN obj : j < k}) = i - 1]

\* w.some(v => v > 0) and w.some(v => v < 0)
HasPos(w) == \E k \in DOMAIN w : Gt0(w[k])
HasNeg(w) == \E k \in DOMAIN w : Lt0(w[k])

\* the candidates and weighted series of updateSourceChart and the
\* arguments of its two filterRates calls (app.js 467-487)
SourceChartOf(spIdx, delta, sourcesDict) ==
  LET rxnIds      == KeysOf(sourcesDict)
      creationIds == FilterSeq(rxnIds, {i \in DOMAIN rxnIds : HasPos(sourcesDict[rxnIds[i]])})
      removalIds  == FilterSeq(rxnIds, {i \in DOMAIN rxnIds : HasNeg(sourcesDict[rxnIds[i]])})
      posWeighted == [r \in Range(creationIds) |->
                        [k \in DOMAIN sourcesDict[r] |-> MaxZero(sourcesDict[r][k])]]
      negWeighted == [r \in Range(removalIds) |->
                        [k \in DOMAIN sourcesDict[r] |-> MaxNegZero(sourcesDict[r][k])]]
  IN  [called |-> TRUE, s |-> spIdx, delta |-> delta, sourcesDict |-> sourcesDict,
       creationIds |-> creationIds, removalIds |-> removalIds,
       posWeighted |-> posWeighted, negWeighted |-> negWeighted,
       creationCall |-> [weightedMap |-> posWeighted, ids |-> creationIds, delta |-> delta],
       removalCall |-> [weightedMap |-> negWeighted, ids |-> removalIds, delta |-> delta]]

\* sel[0] of getSelected: the first selected row of the table
FirstSelected(tbl) == CHOOSE k \in tbl.selected : \A j \in tbl.selected : k <= j

\* updateSourceChart (app.js 459-509), delta being deltaNum / DeltaDen
UpdateSourceChart(deltaNum) ==
  /\ IF data.isNull
       THEN status' = InfoStatus("No data loaded.") /\ UNCHANGED <<charts, srcChart>>
     ELSE IF tables["src-table"].selected = {}
       THEN status' = InfoStatus("Select a species.") /\ UNCHANGED <<charts, srcChart>>
     ELSE IF DOMAIN Sources(data, FirstSelected(tables["src-table"])).result = {}
       THEN status' = InfoStatus("No reactions affect") /\ UNCHANGED <<charts, srcChart>>
     ELSE /\ RenderAllowed("creation-chart")
          /\ RenderAllowed("removal-chart")
          /\ srcChart' = SourceChartOf(FirstSelected(tables["src-table"]), deltaNum,
                           Sources(data, FirstSelected(tables["src-table"])).result)
          /\ charts' = [charts EXCEPT
                          !["creation-chart"] = RenderReact(@, sharedXRange),
                          !["removal-chart"] = RenderReact(@, sharedXRange)]
          /\ UNCHANGED status
  /\ UNCHANGED <<data, loads, tables, overlay, jszip, sharedXRange>>
  /\ UNCHANGED callVars
  /\ UNCHANGED <<isSyncing, relayouts>>

\* a step of the load handler l past its start
LoadStep(l) ==
  \/ \E ok \in BOOLEAN : H5Import(l, ok)
  \/ \E ok \in BOOLEAN : H5Parse(l, ok)
  \/ \E ok \in BOOLEAN : ZipLib(l, ok)
  \/ ZipOpen(l)
  \/ \E ok \in BOOLEAN : ZipExtract(l, ok)
  \/ DirRead(l)
  \/ LoadCommit(l)
  \/ LoadCatch(l)

(***************************************************************************)
(* Generated inputs.                                                       *)
(***************************************************************************)
\* the series of a reaction or species: base, 2*base, ... (T samples)
GenSeries(base, T) == [i \in 1..T |-> Num(base * i)]

\* a matrix row of a given kind: 0 all zero, 1 nonzero everywhere,
\* 2 nonzero (negative) in the odd columns, 3 nonzero in the even columns
RowEntry(kind, j) ==
  CASE kind = 0 -> 0
    [] kind = 1 -> j
    [] kind = 2 -> IF j % 2 = 1 THEN -1 ELSE 0
    [] OTHER    -> IF j % 2 = 0 THEN 2 ELSE 0
GenRow(kind, nCols) == [j \in 1..nCols |-> Num(RowEntry(kind, j))]
RowKinds == 0..3
RateBases == {0, 2}

\* a dataset sources() is studied on: the matrix has nRows rows of nCols
\* columns, whatever the numbers of species and reactions are; the rate
\* series are all present or all absent, as both loaders leave them
GenDataset(ns, nr, T, hasRates, bases, nRows, nCols, kinds) ==
  [NewModelData EXCEPT
     !.species      = [i \in 1..ns |-> Label("S", i)],
     !.reactions    = [i \in 1..nr |-> Label("R", i)],
     !.t            = GenSeries(1, T),
     !.densities    = [i \in 1..ns |-> GenSeries(1, T)],
     !.rates        = IF hasRates THEN [i \in 1..nr |-> GenSeries(bases[i], T)]
                      ELSE <<>>,
     !.sourceMatrix = [i \in 1..nRows |-> GenRow(kinds[i], nCols)]]

\* the weighted series of candidate id with peak p: the peak is at one
\* sample, the others are smaller
WeightedSeries(id, p) ==
  [i \in 1..MaxT |-> IF i = (id % MaxT) + 1 THEN p ELSE p \div 2]

\* the ids 1..n in ascending or in descending order
IdOrders(n) == { [i \in 1..n |-> i], [i \in 1..n |-> n + 1 - i] }

\* the arguments of a filterRates call on n candidates
GenFilterInput(n, peaks, ids, dn, mx, mn) ==
  [weightedMap |-> [id \in 1..n |-> WeightedSeries(id, peaks[id])],
   ids |-> ids, deltaNum |-> dn, maxRates |-> mx, minRates |-> mn]

\* the decimal token of a small integer, with its sign
Token(n) == IF n < 0 THEN <<"-", Digit(0 - n)>> ELSE <<Digit(n)>>

\* tokens joined by single blanks
RECURSIVE JoinTokens(_)
JoinTokens(tokens) ==
  IF tokens = <<>> THEN <<>>
  ELSE IF Len(tokens) = 1 THEN tokens[1]
  ELSE tokens[1] \o <<" ">> \o JoinTokens(Tail(tokens))

\* a list file of n labels "i Ci"; with n = 0 the empty text
GenListText(c, n) ==
  IF n = 0 THEN EmptyText ELSE [i \in 1..n |-> <<Digit(i), " ">> \o Label(c, i)]

\* a data file: a header line, then nRows lines "i v1 .. vnCols"
GenDataText(nRows, nCols) ==
  <<<<"t">>>> \o
  [i \in 1..nRows |->
     JoinTokens(<<Token(i)>> \o [j \in 1..nCols |-> Token((i + j) % 10)])]

\* a matrix file of nRows lines of nCols coefficients
GenMatrixText(nRows, nCols) ==
  IF nRows = 0 THEN EmptyText
  ELSE [i \in 1..nRows |-> JoinTokens([j \in 1..nCols |-> Token(RowEntry(1 + (i % 3), j))])]

TextFile(name, text) == [name |-> name, text |-> text, readable |-> TRUE]

\* the files of the roles in `present`, in the order of the table, the
\* text of each role given by texts
GenFiles(hasQT, present, texts) ==
  LET order == <<"speciesList", "reactionsList", "conditionsList", "densities",
                 "rates", "matrix", "conditions">>
      kept  == FilterSeq(order, {i \in DOMAIN order : order[i] \in present})
  IN  [i \in DOMAIN kept |-> TextFile(DialectNames(hasQT)[kept[i]], texts[kept[i]])]

\* a file list a loader is studied on.  ns, nr: the labels of the species
\* and reactions lists; rd, rr: the data rows of the densities file and of
\* the rates and conditions files; mr, mc: the rows and columns of the
\* matrix file
GenFileList(hasQT, present, ns, nr, rd, rr, mr, mc) ==
  GenFiles(hasQT, present,
    [role \in FileRoles |->
       CASE role = "speciesList"    -> GenListText("S", ns)
         [] role = "reactionsList"  -> GenListText("R", nr)
         [] role = "conditionsList" -> GenListText("C", 1)
         [] role = "densities"      -> GenDataText(rd, ns)
         [] role = "rates"          -> GenDataText(rr, nr)
         [] role = "conditions"     -> GenDataText(rr, 1)
         [] OTHER                   -> GenMatrixText(mr, mc)])

\* the sets of roles whose files are present: at most one of the two
\* mandatory files is missing
GenPresent ==
  {p \in SUBSET FileRoles :
     /\ Cardinality({"speciesList", "densities"} \ p) <= 1
     /\ ("conditionsList" \in p) = ("conditions" \in p)}

\* a child dataset "000i" of a group, named Ci, with len samples
GenChild(c, i, len) ==
  [key |-> <<"0", "0", "0", Digit(i)>>, hasName |-> TRUE, name |-> Label(c, i),
   value |-> GenSeries(i, len)]
GenGroup(c, n, len) ==
  [present |-> TRUE, children |-> [i \in 1..n |-> GenChild(c, i, len)]]

\* a source_matrix dataset of the given shape
RECURSIVE Product(_)
Product(shape) == IF shape = <<>> THEN 1 ELSE Head(shape) * Product(Tail(shape))
GenSm(shape) ==
  [present |-> TRUE, shape |-> shape,
   value |-> [k \in 1..Product(shape) |-> Num((k % 3) - 1)]]

\* a root group an HDF5 loader is studied on.  tLen: the samples of t;
\* nd, nr: the children of density and rate; dLen, rLen: their samples
GenRoot(tLen, nd, dLen, nr, rLen, hasDens, hasRate, hasCond, sm) ==
  [hasT |-> TRUE, t |-> GenSeries(1, tLen), sm |-> sm,
   density |-> IF hasDens THEN GenGroup("S", nd, dLen) ELSE NoGroup,
   rate |-> IF hasRate THEN GenGroup("R", nr, rLen) ELSE NoGroup,
   condition |-> IF hasCond THEN GenGroup("C", 1, rLen) ELSE NoGroup]

\* the source_matrix datasets: none, one dimension, two dimensions
GenSms ==
  {NoSm} \cup {GenSm(<<a>>) : a \in 1..MaxSpecies}
         \cup {GenSm(<<a, b>>) : a \in 0..MaxSpecies, b \in {1, MaxReactions}}

\* a file with its data under the root "main" or under "zdplaskin", and
\* the files without a root
H5Main(r) == [valid |-> TRUE, main |-> r, zdplaskin |-> NoRoot]
H5Zdplaskin(r) == [valid |-> TRUE, main |-> NoRoot, zdplaskin |-> r]
H5Rootless == {[valid |-> v, main |-> NoRoot, zdplaskin |-> NoRoot] : v \in BOOLEAN}

\* archives: one without .txt entries, one that cannot be opened, and the
\* archives of a folder "run/" holding a few of the file lists
GenZipEntries(files) ==
  <<[dir |-> TRUE, name |-> "run", text |-> EmptyText]>> \o
  [i \in DOMAIN files |-> [dir |-> FALSE, name |-> files[i].name, text |-> files[i].text]]
  \o <<[dir |-> FALSE, name |-> "notes.md", text |-> EmptyText]>>

SmallFileLists ==
  { GenFiles(TRUE, present,
      [role \in FileRoles |->
         CASE role = "speciesList"    -> GenListText("S", 1)
           [] role = "reactionsList"  -> GenListText("R", 1)
           [] role = "densities"      -> GenDataText(1, 1)
           [] role = "rates"          -> GenDataText(1, 1)
           [] OTHER                   -> EmptyText]) :
      present \in {{"speciesList", "reactionsList", "densities", "rates"},
                   {"reactionsList", "densities", "rates"}} }

GenZips ==
  {ZipInput(TRUE, GenZipEntries(fl)) : fl \in SmallFileLists}
  \cup {ZipInput(TRUE, GenZipEntries(<<>>)), ZipInput(FALSE, <<>>)}

\* the few inputs of the application study: an HDF5 file that loads, one
\* whose load fails at the rate group after the densities are read, and one
\* without a root group
SmallH5Files ==
  {H5Main([hasT |-> TRUE, t |-> GenSeries(1, 1), sm |-> NoSm,
           density |-> GenGroup("S", 1, 1),
           rate |-> IF hasRate THEN GenGroup("R", 1, 1) ELSE NoGroup,
           condition |-> NoGroup]) : hasRate \in BOOLEAN}
  \cup {[valid |-> TRUE, main |-> NoRoot, zdplaskin |-> NoRoot]}

SmallInputs ==
  {DirInput(fl) : fl \in SmallFileLists} \cup {H5Input(f) : f \in SmallH5Files}
  \cup {ZipInput(TRUE, GenZipEntries(fl)) :
          fl \in {x \in SmallFileLists : Len(x) = 4}}

NoFilterInput ==
  [weightedMap |-> <<>>, ids |-> <<>>, deltaNum |-> 0, maxRates |-> 0, minRates |-> 0]
NoFilterCall == [called |-> FALSE, result |-> <<>>]
NoSourcesCall == [called |-> FALSE, s |-> 0, out |-> Returned(<<>>)]

(***************************************************************************)
(* SpecSources: sources(s) called on a generated dataset.                  *)
(***************************************************************************)
InitSources ==
  /\ \E ns \in {0, MaxSpecies}, nr \in 0..MaxReactions, T \in {0, MaxT},
        nRows \in 0..MaxSpecies, nCols \in 0..MaxReactions :
       \E hasRates \in BOOLEAN, bases \in [1..nr -> RateBases],
          kinds \in [1..nRows -> RowKinds] :
         data = GenDataset(ns, nr, T, hasRates, bases, nRows, nCols, kinds)
  /\ AppIdle
  /\ srcOut = NoSourcesCall
  /\ srcChart = NoSrcChart
  /\ frIn = NoFilterInput
  /\ frOut = NoFilterCall

\* data.sources(s), any integer s around the row range
CallSources(s) ==
  /\ ~data.isNull
  /\ srcOut' = [called |-> TRUE, s |-> s, out |-> Sources(data, s)]
  /\ UNCHANGED <<data, frIn, frOut>>
  /\ UNCHANGED appVars
  /\ UNCHANGED chartVars

NextSources == \E s \in -1..(MaxSpecies + 2) : CallSources(s)

SpecSources == InitSources /\ [][NextSources]_vars

(***************************************************************************)
(* SpecFilter: filterRates called on generated arguments.                  *)
(***************************************************************************)
InitFilter ==
  /\ data = NullData
  /\ AppIdle
  /\ srcOut = NoSourcesCall
  /\ srcChart = NoSrcChart
  /\ \E n \in 0..MaxIds :
       \E peaks \in [1..n -> 0..MaxPeak], ids \in IdOrders(n),
          dn \in 0..DeltaDen, mx \in 0..MaxRank, mn \in 0..MaxRank :
         frIn = GenFilterInput(n, peaks, ids, dn, mx, mn)
  /\ frOut = NoFilterCall

CallFilterRates ==
  /\ ~frOut.called
  /\ frOut' = [called |-> TRUE,
               result |-> FilterRates(frIn.weightedMap, frIn.ids, frIn.deltaNum,
                                      frIn.maxRates, frIn.minRates)]
  /\ UNCHANGED <<data, srcOut, frIn>>
  /\ UNCHANGED appVars
  /\ UNCHANGED chartVars

NextFilter == CallFilterRates

SpecFilter == InitFilter /\ [][NextFilter]_vars

(***************************************************************************)
(* Spec: the application, with up to MaxLoads load handlers in flight.     *)
(***************************************************************************)
Init ==
  /\ data = NullData
  /\ AppIdle
  /\ srcOut = NoSourcesCall
  /\ srcChart = NoSrcChart
  /\ frIn = NoFilterInput
  /\ frOut = NoFilterCall

Next ==
  \E l \in LoadIds :
    \/ \E inp \in SmallInputs : StartLoad(l, inp)
    \/ LoadStep(l)

Spec == Init /\ [][Next]_vars

(***************************************************************************)
(* SpecLoader: one load, of any generated input, from its first await on.  *)
(***************************************************************************)
LoaderStarted(inp) ==
  /\ data = NullData
  /\ loads = [l \in LoadIds |->
                IF l = 1
                  THEN [pc |-> CASE inp.kind = "h5"  -> "import"
                                 [] inp.kind = "zip" -> "jszip"
                                 [] OTHER            -> "reading",
                        input |-> inp, files |-> inp.files,
                        out |-> LoadOk(NewModelData)]
                  ELSE IdleLoad]
  /\ tables = [id \in tableIds |-> EmptyTable]
  /\ status = NoStatus
  /\ overlay = TRUE
  /\ jszip = FALSE
  /\ sharedXRange = NullRange
  /\ charts = [id \in chartIds |-> PurgedChart]
  /\ isSyncing = FALSE
  /\ relayouts = NoRelayouts
  /\ srcOut = NoSourcesCall
  /\ srcChart = NoSrcChart
  /\ frIn = NoFilterInput
  /\ frOut = NoFilterCall

InitLoader ==
  \/ \E hasQT \in BOOLEAN, present \in GenPresent,
        ns \in 0..MaxSpecies, nr \in 0..MaxReactions,
        rd \in 0..MaxT, rr \in 0..MaxT,
        mr \in 0..MaxSpecies, mc \in {0, MaxReactions} :
       LoaderStarted(DirInput(GenFileList(hasQT, present, ns, nr, rd, rr, mr, mc)))
  \/ \E tLen \in 0..MaxT, nd \in 0..MaxSpecies, dLen \in {0, MaxT},
        nr \in 0..MaxReactions, rLen \in {1, MaxT},
        hasDens \in BOOLEAN, hasRate \in BOOLEAN, hasCond \in BOOLEAN,
        sm \in GenSms :
       \/ LoaderStarted(H5Input(H5Main(
            GenRoot(tLen, nd, dLen, nr, rLen, hasDens, hasRate, hasCond, sm))))
       \/ /\ hasDens /\ hasRate /\ sm = NoSm
          /\ LoaderStarted(H5Input(H5Zdplaskin(
               GenRoot(tLen, nd, dLen, nr, rLen, hasDens, hasRate, hasCond, sm))))
  \/ \E inp \in GenZips \cup {H5Input(f) : f \in H5Rootless} : LoaderStarted(inp)

NextLoader == \E l \in LoadIds : LoadStep(l)

SpecLoader == InitLoader /\ [][NextLoader]_vars

(***************************************************************************)
(* Claims about sources() (SpecSources).                                   *)
(***************************************************************************)
\* the coefficient sourceMatrix[s-1][r-1], undefined outside the matrix
CoeffAt(d, s, r) ==
  IF s \in DOMAIN d.sourceMatrix THEN At(d.sourceMatrix[s], r - 1) ELSE Undefined
IsNonzeroCoeff(v) == IsNum(v) /\ v[2] # 0

\* C2: sources(s) contains r exactly when sourceMatrix[s-1][r-1] is a
\* nonzero coefficient and rate(r) exists, and each returned series is the
\* rate series times that coefficient, sample by sample.
C2_SourcesExact ==
  srcOut.called =>
    LET res == srcOut.out.result
        s   == srcOut.s
    IN  /\ ~srcOut.out.threw
        /\ \A r \in 1..Len(data.reactions) :
             r \in DOMAIN res <=>
               (IsNonzeroCoeff(CoeffAt(data, s, r)) /\ HasRate(data, r))
        /\ \A r \in DOMAIN res :
             /\ DOMAIN res[r] = DOMAIN data.rates[r]
             /\ \A i \in DOMAIN res[r] :
                  /\ IsNum(res[r][i])
                  /\ res[r][i][2] = data.rates[r][i][2] * CoeffAt(data, s, r)[2]

\* C3: with an empty matrix, or with s outside the matrix's row range,
\* sources(s) returns the empty mapping and raises no error.
C3_SourcesEmptyOutOfRange ==
  (srcOut.called /\ (data.sourceMatrix = <<>>
                       \/ srcOut.s \notin 1..Len(data.sourceMatrix))) =>
    (~srcOut.out.threw /\ srcOut.out.result = <<>>)

\* a call with s beyond the last row of a non-empty matrix, and one with
\* s <= 0, on a dataset that has reactions with rate series
C3_Witness ==
  /\ srcOut.called
  /\ data.sourceMatrix # <<>>
  /\ srcOut.s > Len(data.sourceMatrix)
  /\ Len(data.reactions) > 0
  /\ \A r \in 1..Len(data.reactions) : HasRate(data, r)
  /\ srcOut.out.result = <<>>

(***************************************************************************)
(* Claims about filterRates (SpecFilter).  The rank of a candidate is      *)
(* stated from the arguments alone: the number of candidates with a        *)
(* larger peak, or with the same peak and an earlier place in ids.         *)
(***************************************************************************)
FrIds      == Range(frIn.ids)
PeakOf(id) == MathMax(frIn.weightedMap[id])
PosOf(id)  == CHOOSE i \in DOMAIN frIn.ids : frIn.ids[i] = id
GlobalPeak == MathMax([i \in DOMAIN frIn.ids |-> PeakOf(frIn.ids[i])])
RankOf(id) ==
  Cardinality({j \in FrIds : \/ PeakOf(j) > PeakOf(id)
                             \/ PeakOf(j) = PeakOf(id) /\ PosOf(j) < PosOf(id)})
InResult(id) == \E k \in DOMAIN frOut.result : frOut.result[k] = id
\* normalised peak of id > delta, and > 1 - delta
PeakAboveDelta(id) == PeakOf(id) * DeltaDen > frIn.deltaNum * GlobalPeak
PeakAboveOneMinusDelta(id) ==
  PeakOf(id) * DeltaDen > (DeltaDen - frIn.deltaNum) * GlobalPeak
\* the call has run on a non-empty candidate list with a positive global peak
FrRanked == frOut.called /\ frIn.ids # <<>> /\ GlobalPeak > 0

\* C4: filterRates returns the empty list when ids is empty and when every
\* candidate's peak is zero, whatever delta, maxRates and minRates are.
C4_EmptyWhenNothingContributes ==
  (frOut.called /\ (frIn.ids = <<>> \/ \A id \in FrIds : PeakOf(id) = 0)) =>
    frOut.result = <<>>

C4_Witness ==
  /\ frOut.called
  /\ frIn.ids # <<>>
  /\ \A id \in FrIds : PeakOf(id) = 0
  /\ frIn.minRates >= 1
  /\ frIn.deltaNum = 0
  /\ frOut.result = <<>>

\* C5: with candidates and a positive global peak, every candidate of rank
\* below minRates is in the result, whatever its peak and delta; so the
\* result is not empty when minRates >= 1.
C5_TopMinAlwaysSelected ==
  FrRanked =>
    /\ \A id \in FrIds : RankOf(id) < frIn.minRates => InResult(id)
    /\ frIn.minRates >= 1 => frOut.result # <<>>

\* a candidate of rank >= 1 below minRates whose normalised peak is not
\* above delta, selected all the same
C5_Witness ==
  /\ FrRanked
  /\ \E id \in FrIds :
       /\ RankOf(id) >= 1
       /\ RankOf(id) < frIn.minRates
       /\ frIn.deltaNum > 0
       /\ ~PeakAboveDelta(id)
       /\ InResult(id)

\* C6: a candidate of rank i, minRates <= i < maxRates, is in the result
\* exactly when delta is 0 or its normalised peak is strictly above delta.
C6_MiddleRanksByDelta ==
  FrRanked =>
    \A id \in FrIds :
      (frIn.minRates <= RankOf(id) /\ RankOf(id) < frIn.maxRates) =>
        (InResult(id) <=> (frIn.deltaNum = 0 \/ PeakAboveDelta(id)))

\* a middle-rank candidate whose normalised peak equals delta, left out
C6_Witness ==
  /\ FrRanked
  /\ \E id \in FrIds :
       /\ frIn.minRates <= RankOf(id)
       /\ RankOf(id) < frIn.maxRates
       /\ frIn.deltaNum > 0
       /\ PeakOf(id) * DeltaDen = frIn.deltaNum * GlobalPeak
       /\ ~InResult(id)

\* C7 as stated: a candidate of rank i >= maxRates is in the result exactly
\* when delta > 0 and its normalised peak is strictly above 1 - delta.
C7_OverflowAsStated ==
  FrRanked =>
    \A id \in FrIds :
      RankOf(id) >= frIn.maxRates =>
        (InResult(id) <=> (frIn.deltaNum > 0 /\ PeakAboveOneMinusDelta(id)))

\* C7 amended: the same for the ranks i >= maxRates that are also >= minRates
\* (a rank below minRates is always selected, also when it is >= maxRates).
C7_OverflowBeyondMin ==
  FrRanked =>
    \A id \in FrIds :
      (RankOf(id) >= frIn.maxRates /\ RankOf(id) >= frIn.minRates) =>
        (InResult(id) <=> (frIn.deltaNum > 0 /\ PeakAboveOneMinusDelta(id)))

\* beyond the cap, one candidate selected for its dominant peak and another
\* one left out
C7_Witness ==
  /\ FrRanked
  /\ \E id \in FrIds :
       /\ RankOf(id) >= frIn.maxRates
       /\ RankOf(id) >= frIn.minRates
       /\ InResult(id)
       /\ ~PeakAboveDelta(id)
  /\ \E id \in FrIds :
       /\ RankOf(id) >= frIn.maxRates
       /\ RankOf(id) >= frIn.minRates
       /\ ~InResult(id)

\* C8: the result is in order of non-increasing peak, candidates of equal
\* peak in their order in ids; it is not put back into the order of ids.
C8_ResultOrder ==
  frOut.called =>
    \A k, l \in DOMAIN frOut.result :
      k < l =>
        LET a == frOut.result[k]
            b == frOut.result[l]
        IN  /\ a # b
            /\ a \in FrIds /\ b \in FrIds
            /\ \/ PeakOf(a) > PeakOf(b)
               \/ PeakOf(a) = PeakOf(b) /\ PosOf(a) < PosOf(b)

\* a result holding two candidates of equal peak, and two candidates in
\* the reverse of their order in ids, ids itself not being in id order
C8_Witness ==
  /\ frOut.called
  /\ Len(frIn.ids) >= 2 /\ frIn.ids[1] > frIn.ids[2]
  /\ \E k, l \in DOMAIN frOut.result :
       k < l /\ PeakOf(frOut.result[k]) = PeakOf(frOut.result[l])
  /\ \E k, l \in DOMAIN frOut.result :
       k < l /\ PosOf(frOut.result[k]) > PosOf(frOut.result[l])

(***************************************************************************)
(* Claims about the load handlers (Spec) and the loaders (SpecLoader).     *)
(***************************************************************************)
\* what the loader of an input returns when all its awaits succeed
LoaderOutcome(inp) ==
  CASE inp.kind = "h5"  -> H5OpenAndParse(inp.h5)
    [] inp.kind = "zip" -> DirectoryLoad(ZipFiles(inp.entries))
    [] OTHER            -> DirectoryLoad(inp.files)

\* C1: a load that fails at any step leaves `data` as it was; `data` is
\* replaced only by the dataset of a load that succeeded as a whole, in one
\* assignment.
C1_FailedLoadKeepsData ==
  [][ /\ \A l \in LoadIds :
           (loads[l].pc # "parsed" /\ loads'[l] # loads[l]) => data' = data
      /\ data' # data =>
           \E l \in LoadIds :
             /\ loads[l].pc = "parsed"
             /\ loads'[l].pc = "idle"
             /\ LoaderOutcome(loads[l].input).ok
             /\ data' = LoaderOutcome(loads[l].input).inst ]_vars

\* a load has failed while a dataset was active, after its loader had
\* begun to fill the new instance
C1_Witness ==
  /\ ~data.isNull
  /\ \E l \in LoadIds :
       /\ loads[l].pc = "failed"
       /\ loads[l].out.inst # NewModelData
       /\ loads[l].out.inst # data

\* C9: in a loaded dataset every density, rate and condition series has
\* len(t) samples.
C9_SeriesAlignedWithT ==
  ~data.isNull =>
    /\ \A k \in DOMAIN data.densities : Len(data.densities[k]) = Len(data.t)
    /\ \A k \in DOMAIN data.rates : Len(data.rates[k]) = Len(data.t)
    /\ \A k \in DOMAIN data.conds : Len(data.conds[k]) = Len(data.t)

\* C10: in a loaded dataset a non-empty sourceMatrix has len(species) rows
\* of len(reactions) columns each.
C10_MatrixShape ==
  (~data.isNull /\ data.sourceMatrix # <<>>) =>
    /\ Len(data.sourceMatrix) = Len(data.species)
    /\ \A i \in DOMAIN data.sourceMatrix :
         Len(data.sourceMatrix[i]) = Len(data.reactions)

(***************************************************************************)
(* SpecH5: one load of an HDF5 file whose groups enumerate their children  *)
(* in any order, under keys of differing width, with or without the name   *)
(* attribute.                                                              *)
(***************************************************************************)
\* the decimal digits of a number below 100
Decimal(n) == IF n < 10 THEN <<Digit(n)>> ELSE <<Digit(n \div 10), Digit(n % 10)>>

\* the number in the key of child i (10, 2, 12, 4, ...) and the key: the
\* number in decimal, every third one with zeros in front ("10", "2",
\* "0012", "4", ...), so that the numeric order of the keys is neither the
\* order of i nor the lexicographic order
KeyNum(i) == IF i % 2 = 1 THEN 9 + i ELSE i
KeyOf(i) == (IF i % 3 = 0 THEN <<"0", "0">> ELSE <<>>) \o Decimal(KeyNum(i))

KeyedChild(c, i, named) ==
  [key |-> KeyOf(i), hasName |-> named, name |-> Label(c, i),
   value |-> GenSeries(i, 1)]

\* a group enumerating the children of `order`, the child `unnamed` (if
\* any) lacking its name attribute
KeyedGroup(c, order, unnamed) ==
  [present |-> TRUE,
   children |-> [k \in DOMAIN order |-> KeyedChild(c, order[k], order[k] # unnamed)]]

\* the enumeration orders: the sequences of distinct children
ChildOrders ==
  UNION {{s \in [1..n -> 1..MaxChildren] :
            \A a, b \in 1..n : a # b => s[a] # s[b]} : n \in 0..MaxChildren}

\* a root whose t starts at tBase; `missing` names the mandatory group it
\* lacks, if any
KeyedRoot(tBase, order, unnamed, missing, hasCond, sm) ==
  [hasT |-> TRUE, t |-> GenSeries(tBase, 1), sm |-> sm,
   density |-> IF missing = "density" THEN NoGroup
               ELSE KeyedGroup("S", order, unnamed),
   rate |-> IF missing = "rate" THEN NoGroup ELSE KeyedGroup("R", order, unnamed),
   condition |-> IF hasCond THEN KeyedGroup("C", order, unnamed) ELSE NoGroup]

\* the source_matrix datasets: none, a scalar, one dimension, two
StudySms ==
  {NoSm, GenSm(<<>>), GenSm(<<MaxSpecies>>), GenSm(<<MaxSpecies, MaxReactions>>)}

\* a file with root `main`, root `zdplaskin`, both or none; when both are
\* there, zdplaskin is complete and its t differs from that of main
KeyedFile(layout, order, unnamed, missing, hasCond, sm) ==
  [valid |-> TRUE,
   main |-> IF layout \in {"main", "both"}
              THEN KeyedRoot(1, order, unnamed, missing, hasCond, sm)
              ELSE NoRoot,
   zdplaskin |-> IF layout = "zdplaskin"
                   THEN KeyedRoot(2, order, unnamed, missing, hasCond, sm)
                 ELSE IF layout = "both"
                   THEN KeyedRoot(2, order, 0, "none", TRUE, NoSm)
                 ELSE NoRoot]

InitH5 ==
  \E layout \in {"main", "zdplaskin", "both", "none"}, order \in ChildOrders,
     unnamed \in 0..MaxChildren, missing \in {"none", "density", "rate"},
     hasCond \in BOOLEAN, sm \in StudySms :
    LoaderStarted(H5Input(KeyedFile(layout, order, unnamed, missing, hasCond, sm)))

NextH5 ==
  \E l \in LoadIds :
    \/ \E ok \in BOOLEAN : H5Import(l, ok)
    \/ \E ok \in BOOLEAN : H5Parse(l, ok)
    \/ LoadCommit(l)
    \/ LoadCatch(l)

SpecH5 == InitH5 /\ [][NextH5]_vars

(***************************************************************************)
(* Claims about the HDF5 loader (SpecH5).  They are stated on a load whose *)
(* loader has settled and whose handler has not yet resumed: the file is   *)
(* loads[l].input.h5, the outcome loads[l].out.                            *)
(***************************************************************************)
H5Returned(l) == loads[l].input.kind = "h5" /\ loads[l].pc = "parsed"

\* the root the loader is to use: main when main/t is readable
ClaimedRoot(f) == IF f.main.hasT THEN f.main ELSE f.zdplaskin

\* the child of a given key, and the 1-based place of a child of a group
\* in the ascending numeric order of the keys
ChildId(c) == CHOOSE i \in 1..MaxChildren : KeyOf(i) = c.key
KeyRank(group, c) ==
  1 + Cardinality({k \in DOMAIN group.children :
                     KeyNum(ChildId(group.children[k])) < KeyNum(ChildId(c))})

\* names and series hold the children of the group by the rank of their key
GroupByKeyRank(group, names, series) ==
  /\ DOMAIN names = 1..Len(group.children)
  /\ DOMAIN series = 1..Len(group.children)
  /\ \A k \in DOMAIN group.children :
       /\ names[KeyRank(group, group.children[k])]
            \in {group.children[k].name, group.children[k].key}
       /\ series[KeyRank(group, group.children[k])] = group.children[k].value

\* C11: whatever the order in which a group enumerates its children, the
\* k-th label and the k-th series of the loaded dataset are those of the
\* child with the k-th smallest numeric key, for the density, rate and
\* condition groups.
C11_ChildrenInNumericKeyOrder ==
  \A l \in LoadIds :
    H5Returned(l) =>
      /\ GroupByKeyRank(ClaimedRoot(loads[l].input.h5).density,
                        loads[l].out.inst.species, loads[l].out.inst.densities)
      /\ GroupByKeyRank(ClaimedRoot(loads[l].input.h5).rate,
                        loads[l].out.inst.reactions, loads[l].out.inst.rates)
      /\ ClaimedRoot(loads[l].input.h5).condition.present =>
           GroupByKeyRank(ClaimedRoot(loads[l].input.h5).condition,
                          loads[l].out.inst.conditions, loads[l].out.inst.conds)

\* a loaded file whose groups enumerate key "10" before key "2" and key
\* "0012" before key "10": neither in numeric nor in lexicographic order
C11_Witness ==
  \E l \in LoadIds :
    /\ H5Returned(l)
    /\ ClaimedRoot(loads[l].input.h5).condition.present
    /\ Len(ClaimedRoot(loads[l].input.h5).density.children) = 3
    /\ ClaimedRoot(loads[l].input.h5).density.children[1].key = <<"0", "0", "1", "2">>
    /\ ClaimedRoot(loads[l].input.h5).density.children[2].key = <<"1", "0">>
    /\ ClaimedRoot(loads[l].input.h5).density.children[3].key = <<"2">>

\* _parseH5 has run on the file of load l: the library was imported, the
\* file was read and opened, and the loader has settled
H5ParseRan(l) ==
  /\ loads[l].input.kind = "h5"
  /\ loads[l].input.h5.valid
  /\ loads[l].pc \in {"parsed", "failed"}
  /\ loads[l].out.error \notin {"Failed to load HDF5 library", "Failed to read"}

\* the load settled as a load from this root alone does: it succeeds
\* exactly when the root has its density and rate groups, with the t and
\* the children of this root
LoadedFromRoot(root, out) ==
  /\ out.ok = (root.density.present /\ root.rate.present)
  /\ out.ok => /\ out.inst.t = root.t
               /\ Len(out.inst.species) = Len(root.density.children)
               /\ Len(out.inst.reactions) = Len(root.rate.children)

\* C12: the loader uses root main whenever main/t is readable, also when
\* zdplaskin/t is readable too; it uses zdplaskin only when main/t is not
\* readable and zdplaskin/t is; when neither is readable the load fails with
\* the structural error and yields no dataset.
C12_RootSelection ==
  \A l \in LoadIds :
    H5ParseRan(l) =>
      /\ loads[l].input.h5.main.hasT =>
           LoadedFromRoot(loads[l].input.h5.main, loads[l].out)
      /\ (~loads[l].input.h5.main.hasT /\ loads[l].input.h5.zdplaskin.hasT) =>
           LoadedFromRoot(loads[l].input.h5.zdplaskin, loads[l].out)
      /\ (~loads[l].input.h5.main.hasT /\ ~loads[l].input.h5.zdplaskin.hasT) =>
           /\ ~loads[l].out.ok
           /\ loads[l].pc = "failed"
           /\ loads[l].out.error =
                "Unrecognised HDF5 structure (expected main/ or zdplaskin/ group)"
           /\ loads[l].out.inst = NewModelData

\* a load has failed on a file in which both main/t and zdplaskin/t are
\* readable, main lacking a group that zdplaskin has
C12_Witness ==
  \E l \in LoadIds :
    /\ H5ParseRan(l)
    /\ loads[l].pc = "failed"
    /\ loads[l].input.h5.main.hasT /\ loads[l].input.h5.zdplaskin.hasT
    /\ loads[l].input.h5.main.t # loads[l].input.h5.zdplaskin.t
    /\ ~loads[l].input.h5.main.rate.present
    /\ loads[l].input.h5.zdplaskin.rate.present

\* names holds, at the rank of each child, its name attribute or, for a
\* child without one, its key; series holds its dataset at the same rank
GroupLabelled(group, names, series) ==
  /\ Len(names) = Len(group.children)
  /\ \A k \in DOMAIN group.children :
       /\ names[KeyRank(group, group.children[k])] =
            IF group.children[k].hasName THEN group.children[k].name
            ELSE group.children[k].key
       /\ KeyRank(group, group.children[k]) \in DOMAIN series
       /\ series[KeyRank(group, group.children[k])] = group.children[k].value

\* C13: the label of a child is the value of its name attribute when the
\* attribute can be read and its raw key otherwise; a child without the
\* attribute does not fail the load and leaves every child at its index.
C13_NameAttributeFallback ==
  \A l \in LoadIds :
    /\ H5Returned(l) =>
         /\ GroupLabelled(ClaimedRoot(loads[l].input.h5).density,
                          loads[l].out.inst.species, loads[l].out.inst.densities)
         /\ GroupLabelled(ClaimedRoot(loads[l].input.h5).rate,
                          loads[l].out.inst.reactions, loads[l].out.inst.rates)
         /\ ClaimedRoot(loads[l].input.h5).condition.present =>
              GroupLabelled(ClaimedRoot(loads[l].input.h5).condition,
                            loads[l].out.inst.conditions, loads[l].out.inst.conds)
    /\ ( /\ H5ParseRan(l)
         /\ ClaimedRoot(loads[l].input.h5).hasT
         /\ ClaimedRoot(loads[l].input.h5).density.present
         /\ ClaimedRoot(loads[l].input.h5).rate.present ) => loads[l].pc = "parsed"

\* a loaded file of three children per group, the one of the smallest key
\* without the name attribute
C13_Witness ==
  \E l \in LoadIds :
    /\ H5Returned(l)
    /\ Len(ClaimedRoot(loads[l].input.h5).density.children) = 3
    /\ \E k \in 1..3 :
         /\ ~ClaimedRoot(loads[l].input.h5).density.children[k].hasName
         /\ KeyRank(ClaimedRoot(loads[l].input.h5).density,
                    ClaimedRoot(loads[l].input.h5).density.children[k]) = 1
         /\ loads[l].out.inst.species[1] =
              ClaimedRoot(loads[l].input.h5).density.children[k].key

\* a source_matrix dataset whose shape is not of two dimensions
MalformedSm(sm) == sm.present /\ Len(sm.shape) # 2

\* C14: a load whose root, t, density group and rate group are readable
\* succeeds whether or not the condition group and the source_matrix dataset
\* are there: without the condition group `conditions` is empty and no
\* condition series exists, with a missing or malformed source_matrix the
\* matrix is empty, and t, species, reactions, densities and rates are as
\* in the file.
C14_OptionalGroupAndMatrix ==
  \A l \in LoadIds :
    ( /\ H5ParseRan(l)
      /\ ClaimedRoot(loads[l].input.h5).hasT
      /\ ClaimedRoot(loads[l].input.h5).density.present
      /\ ClaimedRoot(loads[l].input.h5).rate.present ) =>
      /\ loads[l].pc = "parsed"
      /\ ~ClaimedRoot(loads[l].input.h5).condition.present =>
           /\ loads[l].out.inst.conditions = <<>>
           /\ loads[l].out.inst.conds = <<>>
      /\ ( \/ ~ClaimedRoot(loads[l].input.h5).sm.present
           \/ MalformedSm(ClaimedRoot(loads[l].input.h5).sm) ) =>
           loads[l].out.inst.sourceMatrix = <<>>
      /\ loads[l].out.inst.t = ClaimedRoot(loads[l].input.h5).t
      /\ GroupLabelled(ClaimedRoot(loads[l].input.h5).density,
                       loads[l].out.inst.species, loads[l].out.inst.densities)
      /\ GroupLabelled(ClaimedRoot(loads[l].input.h5).rate,
                       loads[l].out.inst.reactions, loads[l].out.inst.rates)

(***************************************************************************)
(* SpecDir: one load of a file list holding any combination of the files   *)
(* of the two dialects.  The files of dialect A hold one label, one data   *)
(* row and one matrix row, the labels in upper case; those of the legacy   *)
(* dialect hold two of each, the labels in lower case.                     *)
(***************************************************************************)
DialectLetter(hasQT, role) ==
  CASE role \in {"speciesList", "densities"}  -> IF hasQT THEN "S" ELSE "s"
    [] role \in {"reactionsList", "rates"}    -> IF hasQT THEN "R" ELSE "r"
    [] OTHER                                  -> IF hasQT THEN "C" ELSE "c"
DialectSize(hasQT) == IF hasQT THEN 1 ELSE 2

\* the text of the file of a role in a dialect; `empty` names the
\* mandatory role whose file has no content, if any
DialectText(hasQT, role, empty) ==
  IF role = empty THEN EmptyText
  ELSE CASE role \in {"speciesList", "reactionsList", "conditionsList"} ->
              GenListText(DialectLetter(hasQT, role), DialectSize(hasQT))
         [] role = "matrix" -> GenMatrixText(DialectSize(hasQT), DialectSize(hasQT))
         [] OTHER -> GenDataText(DialectSize(hasQT), DialectSize(hasQT))

RoleOrder == <<"speciesList", "reactionsList", "conditionsList", "densities",
               "rates", "matrix", "conditions">>

\* the files of the roles in `legacy` of the legacy dialect, followed by
\* those of the roles in `qt` of dialect A
MixedFiles(legacy, qt, empty) ==
  LET lseq == FilterSeq(RoleOrder, {i \in DOMAIN RoleOrder : RoleOrder[i] \in legacy})
      qseq == FilterSeq(RoleOrder, {i \in DOMAIN RoleOrder : RoleOrder[i] \in qt})
  IN  [i \in DOMAIN lseq |->
         TextFile(DialectNames(FALSE)[lseq[i]], DialectText(FALSE, lseq[i], empty))]
      \o [i \in DOMAIN qseq |->
            TextFile(DialectNames(TRUE)[qseq[i]], DialectText(TRUE, qseq[i], empty))]

InitDir ==
  \E legacy \in SUBSET FileRoles, qt \in SUBSET FileRoles,
     empty \in {"none", "speciesList", "densities"} :
    LoaderStarted(DirInput(MixedFiles(legacy, qt, empty)))

NextDir ==
  \E l \in LoadIds :
    \/ DirRead(l)
    \/ LoadCommit(l)
    \/ LoadCatch(l)

SpecDir == InitDir /\ [][NextDir]_vars

(***************************************************************************)
(* Claims about the choice of the files (SpecDir), stated on a load whose  *)
(* loader has settled: the file list is loads[l].input.files.              *)
(***************************************************************************)
DirSettled(l) ==
  loads[l].input.kind = "dir" /\ loads[l].pc \in {"parsed", "failed"}

\* the file list holds the file of a role under its name in a dialect
HasFile(files, hasQT, role) ==
  \E i \in DOMAIN files : files[i].name = DialectNames(hasQT)[role]

\* the dialect the sentinel selects
Sentinel(files) == \E i \in DOMAIN files : files[i].name = "qt_species_list.txt"

UpperLabels == {"S", "R", "C"}
LowerLabels == {"s", "r", "c"}

\* every label, series and matrix row of the dataset comes from a file of
\* the dialect, or is a default
FromDialect(hasQT, inst) ==
  /\ \A names \in {inst.species, inst.reactions, inst.conditions} :
       \A k \in DOMAIN names :
         names[k][1] \in (IF hasQT THEN UpperLabels ELSE LowerLabels)
  /\ Len(inst.t) = DialectSize(hasQT)
  /\ \A series \in {inst.densities, inst.rates, inst.conds} :
       /\ Len(series) \in {0, DialectSize(hasQT)}
       /\ \A k \in DOMAIN series : Len(series[k]) = DialectSize(hasQT)
  /\ Len(inst.sourceMatrix) = DialectSize(hasQT)

\* C15: the loader reads the seven files under their dialect-A names exactly
\* when qt_species_list.txt is in the file list, and under their legacy
\* names otherwise; a file named in the other dialect is never read.
C15_DialectBySentinel ==
  \A l \in LoadIds :
    DirSettled(l) =>
      /\ ~HasFile(loads[l].input.files, Sentinel(loads[l].input.files), "speciesList")
           => ~loads[l].out.ok
      /\ ~HasFile(loads[l].input.files, Sentinel(loads[l].input.files), "densities")
           => ~loads[l].out.ok
      /\ loads[l].out.ok =>
           /\ FromDialect(Sentinel(loads[l].input.files), loads[l].out.inst)
           /\ (loads[l].out.inst.reactions # <<>>) =
                HasFile(loads[l].input.files, Sentinel(loads[l].input.files),
                        "reactionsList")
           /\ (loads[l].out.inst.conditions # <<>>) =
                HasFile(loads[l].input.files, Sentinel(loads[l].input.files),
                        "conditionsList")
           /\ (loads[l].out.inst.rates # <<>>) =
                ( /\ HasFile(loads[l].input.files, Sentinel(loads[l].input.files),
                             "reactionsList")
                  /\ HasFile(loads[l].input.files, Sentinel(loads[l].input.files),
                             "rates") )
           /\ (loads[l].out.inst.conds # <<>>) =
                ( /\ HasFile(loads[l].input.files, Sentinel(loads[l].input.files),
                             "conditionsList")
                  /\ HasFile(loads[l].input.files, Sentinel(loads[l].input.files),
                             "conditions") )

\* a load of dialect A has succeeded without rates, the file list holding
\* the legacy rates file and not qt_rates.txt; and the legacy species list
C15_Witness ==
  \E l \in LoadIds :
    /\ DirSettled(l) /\ loads[l].out.ok
    /\ Sentinel(loads[l].input.files)
    /\ HasFile(loads[l].input.files, TRUE, "reactionsList")
    /\ ~HasFile(loads[l].input.files, TRUE, "rates")
    /\ HasFile(loads[l].input.files, FALSE, "rates")
    /\ HasFile(loads[l].input.files, FALSE, "speciesList")
    /\ loads[l].out.inst.rates = <<>>

\* C16: a load fails with an error naming the missing role exactly when the
\* species list or the densities file of the selected dialect is missing;
\* with both there it succeeds whatever other files are there, without
\* reactions and rate series when the reactions list is missing and without
\* conditions and condition series when the conditions list is missing.
C16_MandatoryFiles ==
  \A l \in LoadIds :
    DirSettled(l) =>
      /\ ~loads[l].out.ok =
           ( \/ ~HasFile(loads[l].input.files, Sentinel(loads[l].input.files),
                         "speciesList")
             \/ ~HasFile(loads[l].input.files, Sentinel(loads[l].input.files),
                         "densities") )
      /\ ~loads[l].out.ok =>
           loads[l].out.error =
             IF ~HasFile(loads[l].input.files, Sentinel(loads[l].input.files),
                         "speciesList")
               THEN "Species list file not found"
               ELSE "Densities file not found"
      /\ ( /\ loads[l].out.ok
           /\ ~HasFile(loads[l].input.files, Sentinel(loads[l].input.files),
                       "reactionsList") ) =>
           /\ loads[l].out.inst.reactions = <<>>
           /\ loads[l].out.inst.rates = <<>>
      /\ ( /\ loads[l].out.ok
           /\ ~HasFile(loads[l].input.files, Sentinel(loads[l].input.files),
                       "conditionsList") ) =>
           /\ loads[l].out.inst.conditions = <<>>
           /\ loads[l].out.inst.conds = <<>>

(***************************************************************************)
(* SpecList: one load of a species list file made of lines of several      *)
(* forms, beside a densities file.                                         *)
(***************************************************************************)
\* the lines a list file is made of.  form "blank": no character but
\* whitespace; form "indexed": an integer, whitespace and a label, `label`
\* being the text behind the first run of whitespace that follows the
\* integer; form "other": no integer in front
ListLines ==
  << [form |-> "blank",   text |-> <<>>, label |-> <<>>],
     [form |-> "blank",   text |-> <<" ", "\t">>, label |-> <<>>],
     [form |-> "indexed", text |-> <<"3", " ", " ", " ", "O", "(", "1", "D", ")">>,
                          label |-> <<"O", "(", "1", "D", ")">>],
     [form |-> "indexed", text |-> <<" ", "7", "\t", "e", " ", "+", " ", "O", " ">>,
                          label |-> <<"e", " ", "+", " ", "O">>],
     [form |-> "indexed", text |-> <<"1", "2", " ", "4", "H">>,
                          label |-> <<"4", "H">>],
     [form |-> "other",   text |-> <<"A", "r">>, label |-> <<"A", "r">>] >>

\* the list texts: up to MaxLines lines, each of one of the forms
ListTexts ==
  UNION {[1..n -> {ListLines[k].text : k \in DOMAIN ListLines}] : n \in 1..MaxLines}

InitList ==
  \E text \in ListTexts :
    LoaderStarted(DirInput(<<TextFile("qt_species_list.txt", text),
                             TextFile("qt_densities.txt", GenDataText(1, 1))>>))

SpecList == InitList /\ [][NextDir]_vars

(***************************************************************************)
(* Claims about list files (SpecList).                                     *)
(***************************************************************************)
\* the text of the species list of a load, and the form of one of its lines
SpeciesText(l) == loads[l].input.files[1].text
LineForm(line) == CHOOSE k \in DOMAIN ListLines : ListLines[k].text = line

\* the 1-based index of a non-blank line: its place among the non-blank
\* lines of the text
LineIndex(text, p) ==
  Cardinality({q \in 1..p : ListLines[LineForm(text[q])].form # "blank"})

\* C17: the k-th non-blank line of a list file gets index k whatever
\* integer it starts with, a blank line gets none, and the label of a line
\* "integer whitespace label" is the text behind that whitespace.
C17_ListFileIndexAndLabel ==
  \A l \in LoadIds :
    (DirSettled(l) /\ loads[l].out.ok) =>
      /\ Len(loads[l].out.inst.species) = LineIndex(SpeciesText(l), Len(SpeciesText(l)))
      /\ \A p \in DOMAIN SpeciesText(l) :
           ListLines[LineForm(SpeciesText(l)[p])].form = "indexed" =>
             loads[l].out.inst.species[LineIndex(SpeciesText(l), p)] =
               ListLines[LineForm(SpeciesText(l)[p])].label

\* a loaded list whose first line is blank, whose second line is
\* "3   O(1D)" and whose third holds a label of several words
C17_Witness ==
  \E l \in LoadIds :
    /\ DirSettled(l) /\ loads[l].out.ok
    /\ loads[l].input.files[1].name = "qt_species_list.txt"
    /\ Len(SpeciesText(l)) = 3
    /\ SpeciesText(l)[1] = <<" ", "\t">>
    /\ SpeciesText(l)[2] = <<"3", " ", " ", " ", "O", "(", "1", "D", ")">>
    /\ SpeciesText(l)[3] = <<" ", "7", "\t", "e", " ", "+", " ", "O", " ">>
    /\ loads[l].out.inst.species = << <<"O", "(", "1", "D", ")">>,
                                      <<"e", " ", "+", " ", "O">> >>

(***************************************************************************)
(* SpecData: one load of two species and two reactions whose densities and *)
(* rates files hold the same text: a first line and rows of several forms. *)
(***************************************************************************)
\* the lines a data file is made of, with the value of each token.  kind
\* "row": the first token is a number; "comment": it is not; "blank": no
\* token
DataLines ==
  << [kind |-> "row",     text |-> <<"1", " ", "5", " ", "6">>,
                          tokens |-> <<Num(1), Num(5), Num(6)>>],
     [kind |-> "row",     text |-> <<"2", " ", "7">>,
                          tokens |-> <<Num(2), Num(7)>>],
     [kind |-> "row",     text |-> <<"3">>, tokens |-> <<Num(3)>>],
     [kind |-> "row",     text |-> <<"4", " ", "y", " ", "8">>,
                          tokens |-> <<Num(4), NaN, Num(8)>>],
     [kind |-> "row",     text |-> <<" ", "5", "\t", "9", " ", " ", "1", " ">>,
                          tokens |-> <<Num(5), Num(9), Num(1)>>],
     [kind |-> "comment", text |-> <<"x", " ", "1", " ", "2">>,
                          tokens |-> <<NaN, Num(1), Num(2)>>],
     [kind |-> "blank",   text |-> <<>>, tokens |-> <<>>] >>

\* the first lines: a header of words, and a line of numbers
HeaderLines ==
  << [kind |-> "comment", text |-> <<"t", " ", "A", " ", "B">>,
                          tokens |-> <<NaN, NaN, NaN>>],
     [kind |-> "row",     text |-> <<"0", " ", "1", " ", "1">>,
                          tokens |-> <<Num(0), Num(1), Num(1)>>] >>

\* the data texts: the empty text, and a first line followed by up to
\* MaxLines lines; with `blankFirst` a blank line goes in front
DataTexts ==
  {EmptyText} \cup
  UNION {{<<h>> \o rows :
            h \in {HeaderLines[k].text : k \in DOMAIN HeaderLines},
            rows \in [1..n -> {DataLines[k].text : k \in DOMAIN DataLines}]} :
         n \in 0..MaxLines}

InitData ==
  \E text \in DataTexts, blankFirst \in BOOLEAN :
    LoaderStarted(DirInput(
      <<TextFile("qt_species_list.txt", GenListText("S", 2)),
        TextFile("qt_densities.txt", IF blankFirst THEN <<<<>>>> \o text ELSE text),
        TextFile("qt_reactions_list.txt", GenListText("R", 2)),
        TextFile("qt_rates.txt", IF blankFirst THEN <<<<>>>> \o text ELSE text)>>))

SpecData == InitData /\ [][NextDir]_vars

(***************************************************************************)
(* Claims about data files (SpecData).                                     *)
(***************************************************************************)
\* the text of the densities file of a load, and the form of its line p
DensitiesText(l) == loads[l].input.files[2].text
DataLine(line) ==
  IF \E k \in DOMAIN DataLines : DataLines[k].text = line
    THEN DataLines[CHOOSE k \in DOMAIN DataLines : DataLines[k].text = line]
    ELSE HeaderLines[CHOOSE k \in DOMAIN HeaderLines : HeaderLines[k].text = line]

\* the lines behind the first that are kept: not blank, the first token a
\* number; and the sample index of the kept line p
KeptLine(text, p) == p >= 2 /\ DataLine(text[p]).kind = "row"
SampleOf(text, p) == Cardinality({q \in 1..p : KeptLine(text, q)})

\* the loaded series tell the same for densities and rates
SeriesAt(inst, j, i, v) ==
  /\ i \in DOMAIN inst.densities[j] /\ inst.densities[j][i] = v
  /\ i \in DOMAIN inst.rates[j] /\ inst.rates[j][i] = v

\* C18: the first line is discarded, a later line that is blank or whose
\* first token is not a number is skipped, and the i-th kept line gives
\* t[i] its first token and series j, at sample i, its (j+1)-th token for
\* every j it has a token for, also when an earlier kept line is shorter.
C18_DataFileRows ==
  \A l \in LoadIds :
    (DirSettled(l) /\ loads[l].out.ok) =>
      /\ Len(loads[l].out.inst.t) = SampleOf(DensitiesText(l), Len(DensitiesText(l)))
      /\ \A p \in DOMAIN DensitiesText(l) :
           KeptLine(DensitiesText(l), p) =>
             /\ loads[l].out.inst.t[SampleOf(DensitiesText(l), p)] =
                  DataLine(DensitiesText(l)[p]).tokens[1]
             /\ \A j \in 1..2 :
                  j + 1 <= Len(DataLine(DensitiesText(l)[p]).tokens) =>
                    SeriesAt(loads[l].out.inst, j, SampleOf(DensitiesText(l), p),
                             DataLine(DensitiesText(l)[p]).tokens[j + 1])

\* the samples that hold the time of a line, and the lines behind the first
\* that hold the text of a line
SamplesOf(inst, line) == {i \in DOMAIN inst.t : inst.t[i] = line.tokens[1]}
LinesOf(text, line) == {p \in 2..Len(text) : text[p] = line.text}

\* C19: a row whose time token is a number and which has fewer tokens than
\* there are columns is kept as a sample, and every column it lacks is zero
\* at that sample.
C19_ShortRowZeroFilled ==
  \A l \in LoadIds :
    (DirSettled(l) /\ DensitiesText(l) # EmptyText) =>
      /\ loads[l].out.ok
      /\ \A k \in DOMAIN DataLines :
           (DataLines[k].kind = "row" /\ Len(DataLines[k].tokens) < 3) =>
             /\ Cardinality(SamplesOf(loads[l].out.inst, DataLines[k])) =
                  Cardinality(LinesOf(DensitiesText(l), DataLines[k]))
             /\ \A i \in SamplesOf(loads[l].out.inst, DataLines[k]) :
                  \A j \in 1..2 :
                    j + 1 > Len(DataLines[k].tokens) =>
                      SeriesAt(loads[l].out.inst, j, i, Num(0))

\* a loaded file whose first row holds all its tokens and whose second and
\* third rows are short: "2 7" and "3"
C19_Witness ==
  \E l \in LoadIds :
    /\ DirSettled(l) /\ loads[l].out.ok
    /\ loads[l].input.files[2].name = "qt_densities.txt"
    /\ Len(DensitiesText(l)) = 4
    /\ DensitiesText(l)[2] = <<"1", " ", "5", " ", "6">>
    /\ DensitiesText(l)[3] = <<"2", " ", "7">>
    /\ DensitiesText(l)[4] = <<"3">>
    /\ loads[l].out.inst.t = <<Num(1), Num(2), Num(3)>>
    /\ loads[l].out.inst.densities[1] = <<Num(5), Num(7), Num(0)>>
    /\ loads[l].out.inst.densities[2] = <<Num(6), Num(0), Num(0)>>

\* C20: a row holding a token that is not a number, in whatever column, is
\* dropped from t and from every series, the load goes on, and no series
\* holds a NaN sample.
C20_MalformedRowDropped ==
  \A l \in LoadIds :
    (DirSettled(l) /\ DensitiesText(l) # EmptyText) =>
      /\ loads[l].out.ok
      /\ \A k \in DOMAIN DataLines :
           (\E n \in DOMAIN DataLines[k].tokens : IsNaN(DataLines[k].tokens[n])) =>
             SamplesOf(loads[l].out.inst, DataLines[k]) = {}
      /\ \A j \in DOMAIN loads[l].out.inst.densities :
           \A i \in DOMAIN loads[l].out.inst.densities[j] :
             ~IsNaN(loads[l].out.inst.densities[j][i])
      /\ \A j \in DOMAIN loads[l].out.inst.rates :
           \A i \in DOMAIN loads[l].out.inst.rates[j] :
             ~IsNaN(loads[l].out.inst.rates[j][i])

(***************************************************************************)
(* SpecMatrix: a directory load with and without a matrix file, then       *)
(* sources(s) called on the dataset it has made active.                    *)
(***************************************************************************)
\* the sets of roles of a loadable file list, with and without the matrix
MatrixPresent ==
  {{"speciesList", "densities"} \cup opt :
     opt \in SUBSET {"reactionsList", "rates", "matrix"}}

InitMatrix ==
  \E hasQT \in BOOLEAN, present \in MatrixPresent,
     ns \in 0..MaxSpecies, nr \in 0..MaxReactions,
     mr \in {1, MaxSpecies}, mc \in {1, MaxReactions} :
    LoaderStarted(DirInput(GenFileList(hasQT, present, ns, nr, 1, 1, mr, mc)))

NextMatrix ==
  \/ \E l \in LoadIds :
       \/ DirRead(l)
       \/ LoadCommit(l)
       \/ LoadCatch(l)
  \/ \E s \in -1..(MaxSpecies + 2) : CallSources(s)

SpecMatrix == InitMatrix /\ [][NextMatrix]_vars

(***************************************************************************)
(* Claims about the default matrix (SpecMatrix).                           *)
(***************************************************************************)
\* the all-zero matrix of the shape of a dataset
ZeroMatrixOf(d) ==
  [i \in 1..Len(d.species) |-> [j \in 1..Len(d.reactions) |-> Num(0)]]

\* C21: a text load that finds no matrix file gives the all-zero matrix of
\* len(species) rows and len(reactions) columns, and on a dataset with that
\* matrix sources(s) returns the empty mapping for every s, without failing.
C21_AbsentMatrixIsZero ==
  /\ \A l \in LoadIds :
       (/\ DirSettled(l)
        /\ loads[l].out.ok
        /\ ~HasFile(loads[l].input.files, Sentinel(loads[l].input.files), "matrix"))
         => loads[l].out.inst.sourceMatrix = ZeroMatrixOf(loads[l].out.inst)
  /\ (srcOut.called /\ data.sourceMatrix = ZeroMatrixOf(data)) =>
       (~srcOut.out.threw /\ srcOut.out.result = <<>>)

\* sources(s) has been called, with s the index of a species, on a loaded
\* dataset of MaxSpecies species and MaxReactions reactions with their rate
\* series, whose matrix is the default one
C21_Witness ==
  /\ srcOut.called
  /\ status.kind = "loaded"
  /\ Len(data.species) = MaxSpecies
  /\ Len(data.reactions) = MaxReactions
  /\ \A r \in 1..MaxReactions : HasRate(data, r)
  /\ srcOut.s \in 1..MaxSpecies
  /\ data.sourceMatrix = ZeroMatrixOf(data)
  /\ srcOut.out.result = <<>>

(***************************************************************************)
(* SpecClick: a directory load fills the tables, then rows are clicked     *)
(* with any modifier keys.                                                 *)
(***************************************************************************)
InitClick ==
  \E ns \in 0..MaxRows :
    LoaderStarted(DirInput(
      GenFileList(TRUE, {"speciesList", "densities", "reactionsList",
                         "conditionsList", "conditions"}, ns, 1, 1, 1, 0, 0)))

NextClick ==
  \/ \E l \in LoadIds :
       \/ DirRead(l)
       \/ LoadCommit(l)
       \/ LoadCatch(l)
  \/ \E id \in tableIds, row \in 1..MaxRows, ev \in ClickEvents : Click(id, row, ev)

SpecClick == InitClick /\ [][NextClick]_vars

(***************************************************************************)
(* Claims about the selection (SpecClick).                                 *)
(***************************************************************************)
MultiTables == {"cond-table", "spec-table", "react-table"}

\* the rows from the previously clicked row to the clicked one, the clicked
\* row alone when no row was clicked before
ShiftRange(tbl, row) ==
  LET from == IF tbl.last = 0 THEN row ELSE tbl.last
  IN  {k \in DOMAIN tbl.rows : (from <= k /\ k <= row) \/ (row <= k /\ k <= from)}

\* C23: in a multi-select list a plain click leaves exactly the clicked row
\* selected, a Ctrl/Cmd+click flips the clicked row and no other, a
\* Shift+click adds the rows from the previously clicked row to the clicked
\* one and removes none; in the single-select list at most one row is
\* selected at any time.
C23_ClickSelection ==
  /\ [](Cardinality(tables["src-table"].selected) <= 1)
  /\ [][ \A id \in MultiTables, ev \in ClickEvents :
           \A row \in DOMAIN tables[id].rows :
             Click(id, row, ev) =>
               LET before == tables[id].selected
                   after  == tables'[id].selected
               IN  /\ (~ev.ctrlKey /\ ~ev.metaKey /\ ~ev.shiftKey) => after = {row}
                   /\ (ev.ctrlKey \/ ev.metaKey) =>
                        /\ (row \in after) = (row \notin before)
                        /\ after \ {row} = before \ {row}
                   /\ (ev.shiftKey /\ ~ev.ctrlKey /\ ~ev.metaKey) =>
                        after = before \cup ShiftRange(tables[id], row) ]_vars

\* the species list holds a selection with a gap, which only a Ctrl/Cmd+click
\* makes, the reactions list has its row selected, and the single-select
\* list has one row selected
C23_Witness ==
  /\ tables["spec-table"].selected = {1, MaxRows}
  /\ tables["spec-table"].last = MaxRows
  /\ tables["react-table"].selected = {1}
  /\ tables["src-table"].selected = {2}

(***************************************************************************)
(* The shape of the selection (SpecFilter).                                *)
(***************************************************************************)
\* C26: the result of filterRates is a prefix of the ranking: with a
\* candidate in the result, every candidate ranked above it is in the result
\* too, for every delta in [0, 1].
C26_SelectedIsPrefix ==
  FrRanked =>
    \A a, b \in FrIds :
      (InResult(b) /\ RankOf(a) < RankOf(b)) => InResult(a)

(***************************************************************************)
(* SpecOverlap: overlapping loads of HDF5 files and ZIP archives whose     *)
(* datasets differ in their labels, some of which fail.                    *)
(***************************************************************************)
\* an HDF5 file of two species and one reaction, one whose load fails at
\* the rate group, an archive of one species and one reaction, and an
\* archive without .txt entries
OverlapInputs ==
  {H5Input(H5Main(GenRoot(1, 2, 1, 1, 1, TRUE, hasRate, FALSE, NoSm))) :
     hasRate \in BOOLEAN}
  \cup
  {ZipInput(TRUE, GenZipEntries(fl)) :
     fl \in {<<>>, GenFileList(TRUE, {"speciesList", "densities", "reactionsList"},
                               1, 1, 1, 1, 0, 0)}}

NextOverlap ==
  \E l \in LoadIds :
    \/ \E inp \in OverlapInputs : StartLoad(l, inp)
    \/ LoadStep(l)

SpecOverlap == Init /\ [][NextOverlap]_vars

(***************************************************************************)
(* Claims about overlapping loads (SpecOverlap).                           *)
(***************************************************************************)
NoLoadRunning == \A l \in LoadIds : loads[l].pc = "idle"

\* the labels a table lists
Listed(id) == tables[id].rows

\* C27: whenever no load handler is running, the species, reaction and
\* condition tables list the labels of `data` (nothing when data is null);
\* `data` is replaced only when a load finishes with success, by the whole
\* dataset of that load, so that it is null or the result of the last
\* successful load to finish.
C27_TablesFollowData ==
  /\ [](NoLoadRunning =>
          IF data.isNull
            THEN \A id \in tableIds : Listed(id) = <<>>
            ELSE /\ Listed("spec-table") = data.species
                 /\ Listed("react-table") = data.reactions
                 /\ Listed("cond-table") = data.conditions)
  /\ [][ IF \E l \in LoadIds : loads[l].pc = "parsed" /\ loads'[l].pc = "idle"
           THEN \E l \in LoadIds :
                  /\ loads[l].pc = "parsed" /\ loads'[l].pc = "idle"
                  /\ LoaderOutcome(loads[l].input).ok
                  /\ data' = LoaderOutcome(loads[l].input).inst
           ELSE data' = data ]_vars

\* no load is running, the last load to finish has failed, and the tables
\* list the two species and the reaction of the HDF5 file loaded before it
C27_Witness ==
  /\ NoLoadRunning
  /\ status.kind = "error"
  /\ ~data.isNull
  /\ Len(data.species) = 2
  /\ Listed("spec-table") = data.species
  /\ Listed("react-table") = data.reactions

(***************************************************************************)
(* SpecSrcChart: a directory is loaded, a species is selected in the       *)
(* single-select list and updateSourceChart runs.  The rates file holds    *)
(* two rows; the samples of reaction 1 are 2, -1, 0 or the word "y", those *)
(* of reaction 2 are 2; the matrix row of species 1 varies.                *)
(***************************************************************************)
RateTokens == {<<"2">>, <<"-", "1">>, <<"0">>, <<"y">>}
CoeffTokens == {<<"1">>, <<"-", "2">>, <<"0">>}

\* the rates file of the samples a1, a2 of reaction 1
SignedRatesText(a1, a2) ==
  <<<<"t">>, JoinTokens(<<Token(1), a1, Token(2)>>),
             JoinTokens(<<Token(2), a2, Token(2)>>)>>

\* the file list of ns species and two reactions, c1 and c2 being the
\* coefficients of the two reactions for species 1
SignedFiles(ns, a1, a2, c1, c2) ==
  <<TextFile("qt_species_list.txt", GenListText("S", ns)),
    TextFile("qt_reactions_list.txt", GenListText("R", 2)),
    TextFile("qt_densities.txt", GenDataText(2, ns)),
    TextFile("qt_rates.txt", SignedRatesText(a1, a2)),
    TextFile("qt_matrix.txt", <<JoinTokens(<<c1, c2>>), JoinTokens(<<Token(0), Token(1)>>)>>)>>

InitSrcChart ==
  \E ns \in {0, 2}, a1 \in RateTokens, a2 \in RateTokens,
     c1 \in CoeffTokens, c2 \in {<<"0">>, <<"1">>} :
    LoaderStarted(DirInput(SignedFiles(ns, a1, a2, c1, c2)))

NextSrcChart ==
  \/ \E l \in LoadIds :
       \/ DirRead(l)
       \/ LoadCommit(l)
       \/ LoadCatch(l)
  \/ \E row \in 1..2, ev \in ClickEvents : Click("src-table", row, ev)
  \/ \E deltaNum \in {0, 1, DeltaDen} : UpdateSourceChart(deltaNum)
  \/ \E id \in chartIds : RenderDone(id)

SpecSrcChart == InitSrcChart /\ [][NextSrcChart]_vars

(***************************************************************************)
(* Claims about updateSourceChart (SpecSrcChart).                          *)
(***************************************************************************)
\* the ids of a candidate list
Candidates(ids) == {ids[i] : i \in DOMAIN ids}

\* the positive part and the negated negative part of a sample
PositivePart(v) == IF v[2] > 0 THEN v[2] ELSE 0
NegativePart(v) == IF v[2] < 0 THEN 0 - v[2] ELSE 0

\* every sample of the series is a number
Numeric(w) == \A k \in DOMAIN w : IsNum(w[k])

\* C24: for every reaction r of sources(s), r is a creation candidate
\* exactly when a sample of its series is > 0, its weighted series being
\* max(v, 0), and a removal candidate exactly when a sample is < 0, its
\* weighted series being max(-v, 0); every weighted sample is >= 0; each
\* filterRates call gets its own candidate list and weighted map.
C24_CandidatesAndWeights ==
  srcChart.called =>
    LET src == srcChart.sourcesDict
    IN  /\ \A r \in DOMAIN src :
             /\ r \in Candidates(srcChart.creationIds) <=>
                  \E k \in DOMAIN src[r] : IsNum(src[r][k]) /\ src[r][k][2] > 0
             /\ r \in Candidates(srcChart.removalIds) <=>
                  \E k \in DOMAIN src[r] : IsNum(src[r][k]) /\ src[r][k][2] < 0
        /\ Candidates(srcChart.creationIds) \subseteq DOMAIN src
        /\ Candidates(srcChart.removalIds) \subseteq DOMAIN src
        /\ DOMAIN srcChart.posWeighted = Candidates(srcChart.creationIds)
        /\ DOMAIN srcChart.negWeighted = Candidates(srcChart.removalIds)
        /\ \A r \in DOMAIN srcChart.posWeighted :
             /\ DOMAIN srcChart.posWeighted[r] = DOMAIN src[r]
             /\ \A k \in DOMAIN src[r] :
                  /\ IsNum(srcChart.posWeighted[r][k])
                  /\ srcChart.posWeighted[r][k][2] >= 0
                  /\ srcChart.posWeighted[r][k][2] = PositivePart(src[r][k])
        /\ \A r \in DOMAIN srcChart.negWeighted :
             /\ DOMAIN srcChart.negWeighted[r] = DOMAIN src[r]
             /\ \A k \in DOMAIN src[r] :
                  /\ IsNum(srcChart.negWeighted[r][k])
                  /\ srcChart.negWeighted[r][k][2] >= 0
                  /\ srcChart.negWeighted[r][k][2] = NegativePart(src[r][k])
        /\ srcChart.creationCall.ids = srcChart.creationIds
        /\ srcChart.creationCall.weightedMap = srcChart.posWeighted
        /\ srcChart.removalCall.ids = srcChart.removalIds
        /\ srcChart.removalCall.weightedMap = srcChart.negWeighted

(***************************************************************************)
(* SpecSync: a dataset is active and rows are selected; charts are         *)
(* rendered and re-rendered, the user zooms, pans and resets them, and     *)
(* the relayouts of the propagation settle one by one, fulfilled or        *)
(* rejected.                                                               *)
(***************************************************************************)
\* a dataset of two species and one reaction that creates species 1
SyncDataset == GenDataset(2, 1, 1, TRUE, <<2>>, 2, 1, <<1, 0>>)

\* the tables of the dataset with row 1 selected in the tables of `picked`
SelectedTables(d, picked) ==
  [id \in tableIds |->
     IF id \in picked
       THEN [PopulatedTables(d)[id] EXCEPT !.selected = {1}, !.last = 1]
       ELSE PopulatedTables(d)[id]]

InitSync ==
  /\ data = SyncDataset
  /\ loads = [l \in LoadIds |-> IdleLoad]
  /\ \E picked \in {{"spec-table", "react-table"}, {"spec-table", "src-table"}} :
       tables = SelectedTables(SyncDataset, picked)
  /\ status = LoadedStatus(SyncDataset)
  /\ overlay = FALSE
  /\ jszip = FALSE
  /\ sharedXRange = NullRange
  /\ charts = [id \in chartIds |-> PurgedChart]
  /\ isSyncing = FALSE
  /\ relayouts = NoRelayouts
  /\ srcOut = NoSourcesCall
  /\ srcChart = NoSrcChart
  /\ frIn = NoFilterInput
  /\ frOut = NoFilterCall

\* a relayout of the propagation settles
SettleStep == \E id \in chartIds, ok \in BOOLEAN : RelayoutSettle(id, ok)

NextSync ==
  \/ \E id \in chartIds : UpdateChart(id)
  \/ UpdateSourceChart(0)
  \/ \E id \in chartIds : RenderDone(id)
  \/ \E id \in chartIds, ev \in UserEvents : UserRelayout(id, ev)
  \/ SettleStep

SpecSync == InitSync /\ [][NextSync]_vars

\* every Plotly.relayout promise settles in the end
SpecSyncFair == SpecSync /\ WF_vars(SettleStep)

(***************************************************************************)
(* Claims about the synchronised x axis (SpecSync, SpecSyncFair).          *)
(***************************************************************************)
\* no propagation is under way
Quiet == ~isSyncing /\ \A id \in chartIds : relayouts[id] = <<>>

\* C22: once the relayouts of a propagation have all finished, every
\* rendered chart shows the same x range, which is sharedXRange, whatever
\* zoom, pan and autorange events came before, also those that arrived
\* while a propagation was pending.
C22_ChartsShareRange ==
  Quiet => \A id \in chartIds : charts[id].rendered => charts[id].xrange = sharedXRange

\* C25: a propagation makes at most one relayout on each other rendered
\* chart; while isSyncing is true no event, those of the relayouts included,
\* changes sharedXRange or starts another relayout; and isSyncing returns to
\* false, also when a relayout is rejected.
C25_NoFeedbackLoop ==
  /\ [][ /\ (~isSyncing /\ isSyncing') =>
              \A id \in chartIds :
                /\ Len(relayouts'[id]) <= 1
                /\ relayouts'[id] # <<>> => charts[id].rendered
         /\ isSyncing =>
              /\ sharedXRange' = sharedXRange
              /\ \A id \in chartIds : Len(relayouts'[id]) <= Len(relayouts[id]) ]_vars
  /\ isSyncing ~> ~isSyncing

\* a propagation to two other charts is half done: the relayout of one has
\* settled and that chart shows the new range, the other is still pending
C25_Witness ==
  /\ isSyncing
  /\ sharedXRange # NullRange
  /\ \A id \in {"dens-chart", "creation-chart", "removal-chart"} :
       charts[id].rendered /\ charts[id].handlers > 0
  /\ charts["dens-chart"].xrange = sharedXRange
  /\ relayouts["dens-chart"] = <<>>
  /\ charts["creation-chart"].xrange = sharedXRange
  /\ relayouts["creation-chart"] = <<>>
  /\ charts["removal-chart"].xrange # sharedXRange
  /\ relayouts["removal-chart"] = <<sharedXRange>>

====
